---------------------------- MODULE Spec2Model ----------------------------
(***************************************************************************)
(* A model of the all-corrections Earley parser (ALCEP / OALCEP), of the   *)
(* algebra of word-ordered corrections and of the transformer that walks a *)
(* correction shared packed parse forest (CSPPF) to a set of corrections.  *)
(*                                                                         *)
(* Strings are sequences of one-character strings: "ab" is <<"a", "b">>,   *)
(* the empty string is <<>>.  A python None is the record None.            *)
(***************************************************************************)
EXTENDS Integers, Sequences, FiniteSets, TLC

None == [k |-> "none"]

(***************************************************************************)
(* corrections/constants.py, as documented in the compare docstrings:      *)
(* 0 = equals, -1 = incomparable, 1 = self is smaller, 2 = other is        *)
(* smaller.                                                                *)
(***************************************************************************)
CORRECTION_EQUAL == 0

CORRECTION_INCOMPARABLE == -1

CORRECTION_SMALLER == 1

CORRECTION_BIGGER == 2

\* The value a comparison "returns" when the python code raises (a failed
\* assert or a raised Exception) instead of returning a verdict.
RAISED == 3

(***************************************************************************)
(* Edit operations (corrections/edit_operations.py).                       *)
(***************************************************************************)
InsertionOperation(word) == [op |-> "Ins", word |-> word]

DeletionOperation(letter) == [op |-> "Del", letter |-> letter]

ReplacementOperation(letter, replaced_by) ==
    [op |-> "Rep", letter |-> letter, replaced_by |-> replaced_by]

ReadOperation(letter) == [op |-> "Read", letter |-> letter]

\* A faulty scan that starts the shorter word anew at a letter that does
\* not match: it finds the shorter word only as a block of the longer one.
RECURSIVE contiguous_scan(_, _, _, _)
contiguous_scan(shorter_word, longer_word, i, k) ==
    IF k > Len(longer_word) THEN CORRECTION_INCOMPARABLE
    ELSE IF longer_word[k] = shorter_word[i + 1]
         THEN IF i + 1 = Len(shorter_word) THEN CORRECTION_SMALLER
              ELSE contiguous_scan(shorter_word, longer_word, i + 1, k + 1)
         ELSE contiguous_scan(shorter_word, longer_word, 0, k + 1)

\* The two-pointer scan of __is_scattered_subsequence: i letters of the
\* shorter word are matched, k letters of the longer word are consumed.
RECURSIVE scattered_scan(_, _, _, _)
scattered_scan(shorter_word, longer_word, i, k) ==
    IF k > Len(longer_word) THEN CORRECTION_INCOMPARABLE
    ELSE IF longer_word[k] = shorter_word[i + 1]
         THEN IF i + 1 = Len(shorter_word) THEN CORRECTION_SMALLER
              ELSE scattered_scan(shorter_word, longer_word, i + 1, k + 1)
         ELSE scattered_scan(shorter_word, longer_word, i, k + 1)

is_scattered_subsequence(shorter_word, longer_word) ==
    IF Len(shorter_word) > Len(longer_word) THEN RAISED
    ELSE IF shorter_word = longer_word THEN CORRECTION_EQUAL
    ELSE IF Len(shorter_word) = 0 THEN CORRECTION_SMALLER
    ELSE scattered_scan(shorter_word, longer_word, 0, 1)

InsertionOperation_compare(self, other) ==
    IF other.op # "Ins" THEN RAISED
    ELSE IF Len(self.word) <= Len(other.word)
         THEN is_scattered_subsequence(self.word, other.word)
         ELSE LET res == is_scattered_subsequence(other.word, self.word)
              IN  IF res = CORRECTION_SMALLER THEN CORRECTION_BIGGER ELSE res

DeletionOperation_compare(self, other) ==
    CASE other.op = "Read" ->
            IF self.letter = other.letter THEN CORRECTION_BIGGER
            ELSE CORRECTION_INCOMPARABLE
      [] other.op = "Del" ->
            IF self.letter = other.letter THEN CORRECTION_EQUAL
            ELSE CORRECTION_INCOMPARABLE
      [] other.op = "Rep" -> CORRECTION_INCOMPARABLE
      [] other.op = "Ins" -> RAISED

ReplacementOperation_compare(self, other) ==
    CASE other.op = "Read" ->
            IF self.letter = other.letter THEN CORRECTION_BIGGER
            ELSE CORRECTION_INCOMPARABLE
      [] other.op = "Del" -> CORRECTION_INCOMPARABLE
      [] other.op = "Rep" ->
            IF self.letter = other.letter /\ self.replaced_by = other.replaced_by
            THEN CORRECTION_EQUAL
            ELSE CORRECTION_INCOMPARABLE
      [] other.op = "Ins" -> RAISED

ReadOperation_compare(self, other) ==
    CASE other.op = "Read" ->
            IF self.letter = other.letter THEN CORRECTION_EQUAL
            ELSE CORRECTION_INCOMPARABLE
      [] other.op = "Del" ->
            IF self.letter = other.letter THEN CORRECTION_SMALLER
            ELSE CORRECTION_INCOMPARABLE
      [] other.op = "Rep" ->
            IF self.letter = other.letter THEN CORRECTION_SMALLER
            ELSE CORRECTION_INCOMPARABLE
      [] other.op = "Ins" -> RAISED

\* edit_i_self.compare(edit_i_other): the method of the receiver's class.
EditOperation_compare(self, other) ==
    CASE self.op = "Ins" -> InsertionOperation_compare(self, other)
      [] self.op = "Del" -> DeletionOperation_compare(self, other)
      [] self.op = "Rep" -> ReplacementOperation_compare(self, other)
      [] self.op = "Read" -> ReadOperation_compare(self, other)

(***************************************************************************)
(* Word-ordered corrections (lark/corrections/word_ordered_correction.py   *)
(* and word_ordered_correction_with_counter_of_edits.py).  A correction is *)
(* a record: its operations and, for the counted class, its counters (a    *)
(* plain correction keeps them 0 and never reads them).                    *)
(***************************************************************************)
WordOrderedCorrection(operations) ==
    [operations |-> operations,
     counter_of_insertions |-> 0,
     counter_of_replacements |-> 0,
     counter_of_deletions |-> 0]

\* The validation of the constructor (validate_word_ordered = True).
IsWordOrdered(operations) ==
    /\ Len(operations) % 2 = 1
    /\ \A n \in 1..Len(operations) :
          IF n % 2 = 1 THEN operations[n].op = "Ins"
          ELSE operations[n].op \in {"Read", "Rep", "Del"}

\* A faulty apply that emits the letter of a Delete as it does that of a
\* Read.
RECURSIVE apply_emitting_deleted(_, _)
apply_emitting_deleted(operations, n) ==
    IF n > Len(operations) THEN <<>>
    ELSE LET operation == operations[n]
             out == CASE operation.op = "Read" -> operation.letter
                      [] operation.op = "Del" -> operation.letter
                      [] operation.op = "Ins" -> operation.word
                      [] operation.op = "Rep" -> operation.replaced_by
         IN  out \o apply_emitting_deleted(operations, n + 1)

RECURSIVE apply_from(_, _)
apply_from(operations, n) ==
    IF n > Len(operations) THEN <<>>
    ELSE LET operation == operations[n]
             out == CASE operation.op = "Read" -> operation.letter
                      [] operation.op = "Del" -> <<>>
                      [] operation.op = "Ins" -> operation.word
                      [] operation.op = "Rep" -> operation.replaced_by
         IN  out \o apply_from(operations, n + 1)

WordOrderedCorrection_apply(self) == apply_from(self.operations, 1)

\* A faulty endswith that looks for the suffix at the start of the word.
suffix_at_start(word, suffix) ==
    /\ Len(suffix) <= Len(word)
    /\ SubSeq(word, 1, Len(suffix)) = suffix

endswith(word, suffix) ==
    /\ Len(suffix) <= Len(word)
    /\ SubSeq(word, Len(word) - Len(suffix) + 1, Len(word)) = suffix

startswith(word, prefix) ==
    /\ Len(prefix) <= Len(word)
    /\ SubSeq(word, 1, Len(prefix)) = prefix

can_simplify(self, other) ==
    LET ops1 == self.operations
        ops2 == other.operations
        self_last_operation == ops1[Len(ops1)]
        other_first_operation == ops2[1]
    IN  IF self_last_operation.word # <<>> /\ other_first_operation.word # <<>>
        THEN FALSE
        ELSE IF self_last_operation.word # <<>> /\ other_first_operation.word = <<>>
        THEN IF Len(ops2) = 1 THEN FALSE
             ELSE CASE ops2[2].op = "Del" -> TRUE
                    [] ops2[2].op = "Rep" ->
                          endswith(self_last_operation.word, ops2[2].letter)
                    [] OTHER -> FALSE
        ELSE IF self_last_operation.word = <<>> /\ other_first_operation.word # <<>>
        THEN IF Len(ops1) = 1 THEN FALSE
             ELSE CASE ops1[Len(ops1) - 1].op = "Del" -> TRUE
                    [] ops1[Len(ops1) - 1].op = "Rep" ->
                          startswith(other_first_operation.word,
                                     ops1[Len(ops1) - 1].replaced_by)
                    [] OTHER -> FALSE
        ELSE IF Len(ops2) = 1 \/ Len(ops1) = 1 THEN FALSE
             ELSE IF ops1[Len(ops1) - 1].op = "Rep"
                  THEN IF ops2[2].op = "Del"
                       THEN ops1[Len(ops1) - 1].replaced_by = ops2[2].letter
                       ELSE FALSE
                  ELSE FALSE

\* A faulty concatenation that appends the operations of other without
\* fusing the two insertions at the boundary.
unfused_operations(ops1, ops2) == ops1 \o ops2

\* A faulty concatenate that returns other whenever one of the two
\* corrections is empty.
concatenate_returning_other(self, other, simplify) ==
    IF self.operations = <<>> \/ other.operations = <<>>
    THEN other
    ELSE IF simplify /\ can_simplify(self, other) THEN None
    ELSE WordOrderedCorrection(
             SubSeq(self.operations, 1, Len(self.operations) - 1)
             \o << InsertionOperation(self.operations[Len(self.operations)].word
                                      \o other.operations[1].word) >>
             \o SubSeq(other.operations, 2, Len(other.operations)))

\* self.operations[:-1] + [Insertion(last.word + first.word)] + other.operations[1:]
fused_operations(ops1, ops2) ==
    SubSeq(ops1, 1, Len(ops1) - 1)
    \o << InsertionOperation(ops1[Len(ops1)].word \o ops2[1].word) >>
    \o SubSeq(ops2, 2, Len(ops2))

WordOrderedCorrection_concatenate(self, other, simplify) ==
    IF self.operations = <<>> \/ other.operations = <<>>
    THEN IF self.operations = <<>> THEN other ELSE self
    ELSE IF simplify /\ can_simplify(self, other) THEN None
    ELSE WordOrderedCorrection(fused_operations(self.operations, other.operations))

\* A faulty loop that keeps the first verdict when the opposite verdict
\* follows it.
RECURSIVE compare_keeping_first(_, _, _, _)
compare_keeping_first(ops1, ops2, n, current_comparison) ==
    IF n > Len(ops1) \/ n > Len(ops2) THEN current_comparison
    ELSE LET r == EditOperation_compare(ops1[n], ops2[n])
         IN  CASE r = RAISED -> RAISED
               [] r = CORRECTION_INCOMPARABLE -> CORRECTION_INCOMPARABLE
               [] r \in {CORRECTION_SMALLER, CORRECTION_BIGGER}
                  /\ current_comparison = CORRECTION_EQUAL ->
                     compare_keeping_first(ops1, ops2, n + 1, r)
               [] OTHER -> compare_keeping_first(ops1, ops2, n + 1, current_comparison)

RECURSIVE compare_from(_, _, _, _)
compare_from(ops1, ops2, n, current_comparison) ==
    IF n > Len(ops1) \/ n > Len(ops2) THEN current_comparison
    ELSE LET r == EditOperation_compare(ops1[n], ops2[n])
         IN  CASE r = RAISED -> RAISED
               [] r = CORRECTION_INCOMPARABLE -> CORRECTION_INCOMPARABLE
               [] r = CORRECTION_SMALLER ->
                     IF current_comparison = CORRECTION_BIGGER
                     THEN CORRECTION_INCOMPARABLE
                     ELSE compare_from(ops1, ops2, n + 1, CORRECTION_SMALLER)
               [] r = CORRECTION_BIGGER ->
                     IF current_comparison = CORRECTION_SMALLER
                     THEN CORRECTION_INCOMPARABLE
                     ELSE compare_from(ops1, ops2, n + 1, CORRECTION_BIGGER)
               [] OTHER -> compare_from(ops1, ops2, n + 1, current_comparison)

\* assert len(self) == len(other), then the pointwise comparison.
WordOrderedCorrection_compare(self, other) ==
    IF Len(self.operations) # Len(other.operations) THEN RAISED
    ELSE compare_from(self.operations, other.operations, 1, CORRECTION_EQUAL)


(***************************************************************************)
(* Bounds of the model.                                                    *)
(***************************************************************************)
\* The longest input word (number of tokens) that is parsed.
MaxLen == 2

\* The most corrections in a set that is filtered on its own.
MaxSetSize == 3

(***************************************************************************)
(* Grammars, terminals and the lexer.  A grammar symbol is a record with   *)
(* its name and is_term; a rule has an origin, an expansion and its order  *)
(* among the alternatives of its origin.  The name of a terminal is its    *)
(* text: the terminal "ab" has the two-letter pattern "ab".                *)
(***************************************************************************)
Terminal(name) == [name |-> name, is_term |-> TRUE]

NonTerminal(name) == [name |-> name, is_term |-> FALSE]

Rule(origin, expansion, order) ==
    [origin |-> NonTerminal(origin), expansion |-> expansion, order |-> order]

\* The grammars that are parsed, by number.
\*   1:  S -> a
\*   2:  S -> a | a S
\*   3:  S -> S + S | x
\*   4:  S -> A b      A -> (empty) | a
\*   5:  S -> A | B    A -> B | a     B -> A c
\*   6:  S -> A        A -> ab            (one terminal of two letters)
GrammarIds == 1..6

Rules(g) ==
    CASE g = 1 -> << Rule("S", << Terminal("a") >>, 0) >>
      [] g = 2 -> << Rule("S", << Terminal("a") >>, 0),
                     Rule("S", << Terminal("a"), NonTerminal("S") >>, 1) >>
      [] g = 3 -> << Rule("S", << NonTerminal("S"), Terminal("+"), NonTerminal("S") >>, 0),
                     Rule("S", << Terminal("x") >>, 1) >>
      [] g = 4 -> << Rule("S", << NonTerminal("A"), Terminal("b") >>, 0),
                     Rule("A", << >>, 0),
                     Rule("A", << Terminal("a") >>, 1) >>
      [] g = 5 -> << Rule("S", << NonTerminal("A") >>, 0),
                     Rule("S", << NonTerminal("B") >>, 1),
                     Rule("A", << NonTerminal("B") >>, 0),
                     Rule("A", << Terminal("a") >>, 1),
                     Rule("B", << NonTerminal("A"), Terminal("c") >>, 0) >>
      [] g = 6 -> << Rule("S", << NonTerminal("A") >>, 0),
                     Rule("A", << Terminal("ab") >>, 0) >>

\* The texts the lexer can deliver as tokens of an input of grammar g.
TokenTexts(g) ==
    CASE g = 1 -> { <<"a">>, <<"b">> }
      [] g = 2 -> { <<"a">>, <<"b">> }
      [] g = 3 -> { <<"x">>, <<"+">> }
      [] g = 4 -> { <<"a">>, <<"b">> }
      [] g = 5 -> { <<"a">>, <<"c">> }
      [] g = 6 -> { <<"a", "b">>, <<"a">> }

\* The input words of grammar g: every word of at most MaxLen tokens.
RECURSIVE WordsOfLen(_, _)
WordsOfLen(g, n) ==
    IF n = 0 THEN { <<>> }
    ELSE { Append(w, t) : w \in WordsOfLen(g, n - 1), t \in TokenTexts(g) }

InputWords(g) == UNION { WordsOfLen(g, n) : n \in 0..MaxLen }

\* lexer_conf.terminals_by_name[name].pattern.value
pattern_value(name) ==
    CASE name = "ab" -> <<"a", "b">>
      [] OTHER -> << name >>

\* ins_terminal.pattern.value if isinstance(ins_terminal, TerminalDef) else name
ins_string(expect) == pattern_value(expect.name)

\* The matcher handed to the parser: the token is an occurrence of the terminal.
term_matcher(expect, token) == pattern_value(expect.name) = token

START == NonTerminal("S")

(***************************************************************************)
(* Ordered sets (lark.utils.OrderedSet) are sequences without duplicates,  *)
(* in insertion order.                                                     *)
(***************************************************************************)
SeqToSet(seq) == { seq[n] : n \in 1..Len(seq) }

\* The grammar analysis of BaseParser.__init__.
TERMINALS(g) ==
    { sym \in UNION { SeqToSet(Rules(g)[r].expansion) : r \in 1..Len(Rules(g)) } :
        sym.is_term }

NON_TERMINALS(g) ==
    { sym \in UNION { SeqToSet(Rules(g)[r].expansion) : r \in 1..Len(Rules(g)) } :
        ~sym.is_term }

\* The numbers of the rules of an origin, in grammar order.
RECURSIVE rules_by_origin_from(_, _, _)
rules_by_origin_from(g, origin, r) ==
    IF r > Len(Rules(g)) THEN <<>>
    ELSE (IF Rules(g)[r].origin = origin THEN << r >> ELSE <<>>)
         \o rules_by_origin_from(g, origin, r + 1)

rules_by_origin(g, origin) == rules_by_origin_from(g, origin, 1)

\* GrammarAnalyzer.expand_rule: the rules reachable from an origin through
\* the first symbols of expansions, breadth first.
RECURSIVE expand_rule_bfs(_, _, _, _)
expand_rule_bfs(g, open_q, visited, init_ptrs) ==
    IF open_q = <<>> THEN init_ptrs
    ELSE LET node == Head(open_q)
             own == rules_by_origin(g, node)
             RECURSIVE nexts(_, _)
             nexts(n, seen) ==
                 IF n > Len(own) THEN <<>>
                 ELSE LET exp == Rules(g)[own[n]].expansion
                      IN  IF exp # <<>> /\ ~exp[1].is_term /\ exp[1] \notin seen
                          THEN << exp[1] >> \o nexts(n + 1, seen \cup {exp[1]})
                          ELSE nexts(n + 1, seen)
             new == nexts(1, visited)
         IN  expand_rule_bfs(g, Tail(open_q) \o new, visited \cup SeqToSet(new),
                             init_ptrs \o own)

predictions(g, origin) == expand_rule_bfs(g, << origin >>, {origin}, <<>>)

(***************************************************************************)
(* Earley items (lark.parsers.earley_common.Item) and forest nodes         *)
(* (lark.parsers.earley_forest).  A rule is named by its number in the     *)
(* grammar.  A symbol or intermediate node is named by its label           *)
(* (s, start, end); the node cache keeps one node per label, so a          *)
(* reference to a node is its label.                                       *)
(***************************************************************************)
is_complete(g, rule, ptr) == Len(Rules(g)[rule].expansion) = ptr

\* item.s: the origin of a complete item, (rule, ptr) otherwise.
item_s(g, rule, ptr) ==
    IF is_complete(g, rule, ptr) THEN Rules(g)[rule].origin
    ELSE [rule |-> rule, ptr |-> ptr]

\* item.expect: the symbol after the dot, None for a complete item.
item_expect(g, rule, ptr) ==
    IF is_complete(g, rule, ptr) THEN None ELSE Rules(g)[rule].expansion[ptr + 1]

Item(g, rule, ptr, start) ==
    [rule |-> rule, ptr |-> ptr, start |-> start, node |-> None,
     s |-> item_s(g, rule, ptr), expect |-> item_expect(g, rule, ptr),
     is_complete |-> is_complete(g, rule, ptr)]

advance(g, item) == Item(g, item.rule, item.ptr + 1, item.start)

\* Item.__eq__: the node of an item is no part of its identity.
SameItem(a, b) == a.rule = b.rule /\ a.ptr = b.ptr /\ a.start = b.start

ItemIn(item, set) == \E n \in 1..Len(set) : SameItem(set[n], item)

\* OrderedSet.add of an item: an equal item keeps its place and its object.
AddItem(set, item) == IF ItemIn(item, set) THEN set ELSE Append(set, item)

SymbolNode(s, start, end) == [k |-> "sym", s |-> s, start |-> start, end |-> end]

TokenNode(token) == [k |-> "tok", token |-> token]

PackedNode(s, rule, start, left, right) ==
    [s |-> s, rule |-> rule, start |-> start, left |-> left, right |-> right]

\* PackedNode.__eq__: two packed nodes are equal when their children are.
SamePacked(p, q) == p.left = q.left /\ p.right = q.right

\* A faulty cache that makes a new node for a label whenever it is asked.
cached_anew(node_cache, label) == (label :> <<>>) @@ node_cache

\* node_cache[label] if label in node_cache else node_cache.setdefault(label, SymbolNode(*label))
\* The cache maps a label to the families (packed nodes) of its node.
cached(node_cache, label) ==
    IF label \in DOMAIN node_cache THEN node_cache ELSE node_cache @@ (label :> <<>>)

\* SymbolNode.add_family on the node of a label: the children are an ordered
\* set of packed nodes.
add_family(node_cache, label, s, rule, start, left, right) ==
    LET p == PackedNode(s, rule, start, left, right)
        nc == cached(node_cache, label)
    IN  IF \E n \in 1..Len(nc[label]) : SamePacked(nc[label][n], p) THEN nc
        ELSE [nc EXCEPT ![label] = Append(@, p)]

\* SymbolNode.children: the families sorted by (is_empty, -priority,
\* rule.order); no priority is ever set, and sorted() is stable.
is_empty(p) == p.left = None /\ p.right = None

RECURSIVE select_sort_key(_, _, _, _)
select_sort_key(g, families, empty, order) ==
    IF families = <<>> THEN <<>>
    ELSE (IF is_empty(Head(families)) = empty /\ Rules(g)[Head(families).rule].order = order
          THEN << Head(families) >> ELSE <<>>)
         \o select_sort_key(g, Tail(families), empty, order)

RECURSIVE sorted_from(_, _, _, _)
sorted_from(g, families, empty, order) ==
    IF order > Len(Rules(g)) THEN <<>>
    ELSE select_sort_key(g, families, empty, order)
         \o sorted_from(g, families, empty, order + 1)

children(g, families) ==
    sorted_from(g, families, FALSE, 0) \o sorted_from(g, families, TRUE, 0)

(***************************************************************************)
(* The state.                                                              *)
(***************************************************************************)
VARIABLES
    pc,                \* the step of the run that comes next
    grammar,           \* the number of the grammar of the parsers
    tokens,            \* the input word: the tokens the lexer delivers
    \* ALCEP (lark/parsers/alcep.py)
    earley_sets,       \* earley_sets[i + 1] is the Earley set E_i
    to_scan,           \* the set N
    next_to_scan,      \* the set N'
    node_cache,        \* label -> families of the node of that label
    items,             \* the queue R of compute_earley_set
    held_completions,  \* the set H: origin -> node
    i,                 \* the index of the current Earley set
    root_alcep,        \* what BaseParser.parse returned
    \* OALCEP (lark/parsers/oalcep.py)
    q_0,               \* the set Q_0
    x_i,               \* the set X_i
    nodes_dict,        \* (i, j, s) -> None or the node of the label (s, j, i)
    oalcep_cache,      \* label -> families of the OALCEP node of that label
    root_oalcep,       \* what OptimizedBaseParser.parse returned
    \* CSPPFToCorrectionTransformer (corrections/transformer.py)
    options,           \* the arguments of the constructor, and the parser
                       \* whose root is transformed
    max_number_of,     \* the class attributes max_number_of_* of the
                       \* counted corrections
    constructed,       \* the transformers that are constructed beforehand:
                       \* the arguments of their constructors, in order
    returned,          \* what the transforms before the current one returned
    input_stack,       \* the stack of __visit
    visiting,          \* (id(node), path) visited once
    visited,           \* (id(node), path) visited twice
    visited_token_nodes,
    path,              \* the nodes that are being visited
    corrections,       \* self.corrections: (hash(node), path) -> set
    next_id,           \* the number of correction objects created
    result,            \* what transform returned
    \* The algebra of corrections, on operands of its own
    operands,          \* the corrections a, b and c that are concatenated
    concatenated,      \* (a . b) . c and a . (b . c)
    filter_input,      \* the set S that is filtered
    filter_output,     \* what __compute_smallest_corrections returned on S
    filter_output_again, \* and what it returned on that
    \* The comparisons and the simplification, on operands of their own
    compared,          \* the two operations or corrections self and other
    outcome,           \* what compare or concatenate returned on them
    \* ALCIEP (lark/parsers/alciep.py)
    alciep,            \* the locals of BaseParser.parse: earley_sets, to_scan,
                       \* i, j, end_correction, correction and edit_options
    console,           \* the line typed last and the line printed last
    alciep_correction  \* what BaseParser.parse returned

alcep_vars == << earley_sets, to_scan, next_to_scan, node_cache, items,
                 held_completions, i, root_alcep >>

oalcep_vars == << q_0, x_i, nodes_dict, oalcep_cache, root_oalcep >>

walk_vars == << input_stack, visiting, visited, visited_token_nodes, path,
               corrections, next_id >>

transformer_vars == << options, max_number_of, walk_vars, result >>

algebra_vars == << operands, concatenated, filter_input, filter_output,
                  filter_output_again >>

comparison_vars == << compared, outcome >>

alciep_vars == << alciep, console, alciep_correction >>

constructed_vars == << constructed, returned >>

\* What the ALCEP steps leave alone.
not_alcep_vars ==
    << oalcep_vars, transformer_vars, algebra_vars, comparison_vars, alciep_vars,
       constructed_vars >>

\* What the OALCEP steps leave alone.
not_oalcep_vars ==
    << alcep_vars, transformer_vars, algebra_vars, comparison_vars, alciep_vars,
       constructed_vars >>

\* What the steps of the transformer leave alone.
not_transformer_vars ==
    << grammar, tokens, alcep_vars, oalcep_vars, algebra_vars, comparison_vars,
       alciep_vars,
       constructed_vars >>

\* What the steps on the algebra leave alone.
not_algebra_vars ==
    << grammar, tokens, alcep_vars, oalcep_vars, transformer_vars, comparison_vars,
       alciep_vars,
       constructed_vars >>

\* What the steps on compared leave alone.
not_comparison_vars ==
    << grammar, tokens, alcep_vars, oalcep_vars, transformer_vars, algebra_vars,
       alciep_vars,
       constructed_vars >>

\* What the steps of ALCIEP leave alone.
not_alciep_vars ==
    << grammar, tokens, alcep_vars, oalcep_vars, transformer_vars, algebra_vars,
       comparison_vars,
       constructed_vars >>

vars == << pc, grammar, tokens, alcep_vars, oalcep_vars, transformer_vars,
           algebra_vars, comparison_vars, alciep_vars, constructed_vars >>

\* What a step returns in place of a value when the python code raises.
Raised == [k |-> "raised"]

\* A function with no argument: an empty dict.
EmptyDict == [x \in {} |-> None]

(***************************************************************************)
(* ALCEP: BaseParser.parse, _parse, compute_earley_set and                 *)
(* _init_next_earley_set.                                                  *)
(***************************************************************************)
\* The first Earley set and the set to_scan, by predicting the start symbol.
RECURSIVE parse_init_from(_, _, _, _)
parse_init_from(g, rules, n, st) ==
    IF n > Len(rules) THEN st
    ELSE LET item == Item(g, rules[n], 0, 0)
         IN  parse_init_from(g, rules, n + 1,
                 [set |-> AddItem(st.set, item),
                  to_scan |-> IF item.expect \in TERMINALS(g)
                              THEN AddItem(st.to_scan, item) ELSE st.to_scan])

\* A faulty __add_item that leaves a new item out of the queue.
closure_add_item_unqueued(g, st, item_to_add) ==
    [st EXCEPT
        !.set = AddItem(@, item_to_add),
        !.to_scan = IF item_to_add.expect \in TERMINALS(g)
                    THEN AddItem(@, item_to_add) ELSE @]

\* compute_earley_set.__add_item on the threaded state of the closure:
\* the current Earley set, the queue, to_scan and the node cache.
closure_add_item(g, st, item_to_add) ==
    LET fresh == ~ItemIn(item_to_add, st.set)
    IN  [st EXCEPT
            !.set = IF fresh THEN Append(@, item_to_add) ELSE @,
            !.items = IF fresh THEN Append(@, item_to_add) ELSE @,
            !.to_scan = IF item_to_add.expect \in TERMINALS(g)
                        THEN AddItem(@, item_to_add) ELSE @]

\* The originators of a complete item, in the order of their Earley set.
RECURSIVE originators_of(_, _)
originators_of(set, s) ==
    IF set = <<>> THEN <<>>
    ELSE (IF Head(set).expect # None /\ Head(set).expect = s
          THEN << Head(set) >> ELSE <<>>)
         \o originators_of(Tail(set), s)

RECURSIVE completer_loop(_, _, _, _, _, _)
completer_loop(g, pos, originators, n, item_node, st) ==
    IF n > Len(originators) THEN st
    ELSE LET originator == originators[n]
             label == SymbolNode(advance(g, originator).s, originator.start, pos)
             new_item == [advance(g, originator) EXCEPT !.node = label]
             nc == add_family(st.cache, label, new_item.s, new_item.rule,
                              originator.start, originator.node, item_node)
         IN  completer_loop(g, pos, originators, n + 1, item_node,
                            closure_add_item(g, [st EXCEPT !.cache = nc], new_item))

\* item.node of the popped item is assigned on the object that sits in the
\* current Earley set.
set_item_node(set, item, node) ==
    [n \in 1..Len(set) |->
        IF SameItem(set[n], item) THEN [set[n] EXCEPT !.node = node] ELSE set[n]]

RECURSIVE predictor_loop(_, _, _, _, _)
predictor_loop(g, pos, rules, n, st) ==
    IF n > Len(rules) THEN st
    ELSE predictor_loop(g, pos, rules, n + 1,
                        closure_add_item(g, st, Item(g, rules[n], 0, pos)))

\* BaseParser.scanner_rule
scanner_rule(g, pos, item, token, cache) ==
    LET label == SymbolNode(advance(g, item).s, advance(g, item).start, pos + 1)
        read_node == TokenNode(ReadOperation(token))
        new_item == [advance(g, item) EXCEPT !.node = label]
    IN  [item |-> new_item,
         cache |-> add_family(cache, label, new_item.s, item.rule, new_item.start,
                              item.node, read_node)]

\* A faulty replacement rule that reads the token.
replacement_as_read(g, pos, item, token, cache) ==
    LET label == SymbolNode(advance(g, item).s, advance(g, item).start, pos + 1)
        new_item == [advance(g, item) EXCEPT !.node = label]
    IN  [item |-> new_item,
         cache |-> add_family(cache, label, new_item.s, item.rule, new_item.start,
                              item.node, TokenNode(ReadOperation(token)))]

\* BaseParser.replacement_rule
replacement_rule(g, pos, item, token, cache) ==
    LET label == SymbolNode(advance(g, item).s, advance(g, item).start, pos + 1)
        replacement_node ==
            TokenNode(ReplacementOperation(token, ins_string(item.expect)))
        new_item == [advance(g, item) EXCEPT !.node = label]
    IN  [item |-> new_item,
         cache |-> add_family(cache, label, new_item.s, item.rule, new_item.start,
                              item.node, replacement_node)]

\* A faulty deletion rule whose node ends where the node of the item ends.
deletion_rule_without_step(g, pos, item, token, cache) ==
    LET label == SymbolNode(item.s, item.start, pos)
        deletion_node == TokenNode(DeletionOperation(token))
        new_item == [item EXCEPT !.node = label]
    IN  [item |-> new_item,
         cache |-> add_family(cache, label, new_item.s, item.rule, new_item.start,
                              item.node, deletion_node)]

\* BaseParser.deletion_rule
deletion_rule(g, pos, item, token, cache) ==
    LET label == SymbolNode(item.s, item.start, pos + 1)
        deletion_node == TokenNode(DeletionOperation(token))
        new_item == [item EXCEPT !.node = label]
    IN  [item |-> new_item,
         cache |-> add_family(cache, label, new_item.s, item.rule, new_item.start,
                              item.node, deletion_node)]

\* _init_next_earley_set.__add_item on the threaded state of the shift:
\* the next Earley set, next_to_scan and the node cache.
shift_add_item(g, st, r) ==
    [set |-> AddItem(st.set, r.item),
     to_scan |-> IF r.item.expect \in TERMINALS(g)
                 THEN AddItem(st.to_scan, r.item) ELSE st.to_scan,
     cache |-> r.cache]

\* The loops below run through scan[lo..hi] in order.  A long run is split
\* in two halves that are run one after the other; the test half = half
\* makes the state after the first half a value before the second half runs.
RECURSIVE scan_loop(_, _, _, _, _, _, _)
scan_loop(g, pos, scan, lo, hi, token, st) ==
    IF lo > hi THEN st
    ELSE IF lo = hi
    THEN shift_add_item(g, st,
             IF term_matcher(scan[lo].expect, token)
             THEN scanner_rule(g, pos, scan[lo], token, st.cache)
             ELSE replacement_rule(g, pos, scan[lo], token, st.cache))
    ELSE LET half == scan_loop(g, pos, scan, lo, (lo + hi) \div 2, token, st)
         IN  IF half = half
             THEN scan_loop(g, pos, scan, (lo + hi) \div 2 + 1, hi, token, half)
             ELSE half

RECURSIVE deletion_loop(_, _, _, _, _, _, _)
deletion_loop(g, pos, set, lo, hi, token, st) ==
    IF lo > hi THEN st
    ELSE IF lo = hi
    THEN shift_add_item(g, st, deletion_rule(g, pos, set[lo], token, st.cache))
    ELSE LET half == deletion_loop(g, pos, set, lo, (lo + hi) \div 2, token, st)
         IN  IF half = half
             THEN deletion_loop(g, pos, set, (lo + hi) \div 2 + 1, hi, token, half)
             ELSE half

\* The nodes of the complete start items of the last set, without repeats.
RECURSIVE solutions_of(_, _)
solutions_of(set, seen) ==
    IF set = <<>> THEN <<>>
    ELSE LET n == Head(set)
             hit == n.is_complete /\ n.node # None /\ n.s = START /\ n.start = 0
                    /\ n.node \notin seen
         IN  (IF hit THEN << n.node >> ELSE <<>>)
             \o solutions_of(Tail(set), IF hit THEN seen \cup {n.node} ELSE seen)

\* BaseParser.parse up to the call of _parse, and the start of _parse: the
\* first Earley set, to_scan, an empty node cache and an empty next_to_scan.
AlcepParse ==
    /\ pc = "alcep_parse"
    /\ LET st == parse_init_from(grammar, predictions(grammar, START), 1,
                                 [set |-> <<>>, to_scan |-> <<>>])
       IN  /\ earley_sets' = << st.set >>
           /\ to_scan' = st.to_scan
    /\ next_to_scan' = <<>>
    /\ node_cache' = EmptyDict
    /\ i' = 0
    /\ items' = <<>>
    /\ held_completions' = EmptyDict
    /\ pc' = "alcep_loop"
    /\ UNCHANGED << grammar, tokens, root_alcep >>
    /\ UNCHANGED not_alcep_vars

\* The head of the main loop of _parse for the next token (to_scan becomes
\* next_to_scan, next_to_scan a new set), or the line after the loop when
\* the tokens are used up; then the start of compute_earley_set.
AlcepLoop ==
    /\ pc = "alcep_loop"
    /\ IF i < Len(tokens)
       THEN /\ to_scan' = next_to_scan
            /\ next_to_scan' = <<>>
       ELSE UNCHANGED << to_scan, next_to_scan >>
    /\ held_completions' = EmptyDict
    /\ items' = earley_sets[i + 1]
    /\ pc' = "alcep_closure"
    /\ UNCHANGED << grammar, tokens, earley_sets, node_cache, i, root_alcep >>
    /\ UNCHANGED not_alcep_vars

\* The threaded state of one step of the closure, and its write-back.
closure_state == [set |-> earley_sets[i + 1],
                  items |-> SubSeq(items, 1, Len(items) - 1),
                  to_scan |-> to_scan,
                  cache |-> node_cache]

closure_write(st) ==
    /\ earley_sets' = [earley_sets EXCEPT ![i + 1] = st.set]
    /\ items' = st.items
    /\ to_scan' = st.to_scan
    /\ node_cache' = st.cache

\* One turn of the loop of compute_earley_set on a complete item.
Completer ==
    /\ pc = "alcep_closure"
    /\ items # <<>>
    /\ LET item == items[Len(items)]
           label == SymbolNode(item.s, item.start, i)
           node == IF item.node = None THEN label ELSE item.node
           st0 == closure_state
           st1 == IF item.node = None
                  THEN [st0 EXCEPT
                          !.cache = add_family(@, label, item.s, item.rule,
                                               item.start, None, None),
                          !.set = set_item_node(@, item, label)]
                  ELSE st0
           origin_set == IF item.start = i THEN st1.set
                         ELSE earley_sets[item.start + 1]
           originators == originators_of(origin_set, item.s)
       IN  /\ item.is_complete
           /\ held_completions' =
                 IF item.start = i
                 THEN [o \in DOMAIN held_completions \cup {Rules(grammar)[item.rule].origin} |->
                          IF o = Rules(grammar)[item.rule].origin THEN node
                          ELSE held_completions[o]]
                 ELSE held_completions
           /\ closure_write(completer_loop(grammar, i, originators, 1, node, st1))
    /\ UNCHANGED << pc, grammar, tokens, next_to_scan, i, root_alcep >>
    /\ UNCHANGED not_alcep_vars

\* One turn of the loop of compute_earley_set on an item that expects a
\* non-terminal.
Predictor ==
    /\ pc = "alcep_closure"
    /\ items # <<>>
    /\ LET item == items[Len(items)]
           st1 == predictor_loop(grammar, i, predictions(grammar, item.expect), 1,
                                 closure_state)
           label == SymbolNode(advance(grammar, item).s, item.start, i)
           new_item == [advance(grammar, item) EXCEPT !.node = label]
       IN  /\ ~item.is_complete
           /\ item.expect \in NON_TERMINALS(grammar)
           /\ IF item.expect \in DOMAIN held_completions
              THEN closure_write(closure_add_item(grammar,
                      [st1 EXCEPT !.cache =
                          add_family(@, label, new_item.s, new_item.rule,
                                     new_item.start, item.node,
                                     held_completions[item.expect])],
                      new_item))
              ELSE closure_write(st1)
    /\ UNCHANGED << pc, grammar, tokens, next_to_scan, held_completions, i,
                    root_alcep >>
    /\ UNCHANGED not_alcep_vars

\* One turn of the loop of compute_earley_set on an item that expects a
\* terminal: the insertion rule.
InsertionRule ==
    /\ pc = "alcep_closure"
    /\ items # <<>>
    /\ LET item == items[Len(items)]
           label == SymbolNode(advance(grammar, item).s, item.start, i)
           new_item == [advance(grammar, item) EXCEPT !.node = label]
           ins_node == TokenNode(InsertionOperation(ins_string(item.expect)))
           st0 == closure_state
       IN  /\ ~item.is_complete
           /\ item.expect \notin NON_TERMINALS(grammar)
           /\ item.expect \in TERMINALS(grammar)
           /\ closure_write(closure_add_item(grammar,
                 [st0 EXCEPT !.cache =
                     add_family(@, label, new_item.s, item.rule, new_item.start,
                                item.node, ins_node)],
                 new_item))
    /\ UNCHANGED << pc, grammar, tokens, next_to_scan, held_completions, i,
                    root_alcep >>
    /\ UNCHANGED not_alcep_vars

\* compute_earley_set has returned and a token is left:
\* _init_next_earley_set, then i += 1.
InitNextEarleySet ==
    /\ pc = "alcep_closure"
    /\ items = <<>>
    /\ i < Len(tokens)
    /\ LET token == tokens[i + 1]
           st0 == [set |-> <<>>, to_scan |-> next_to_scan, cache |-> node_cache]
           st1 == scan_loop(grammar, i, to_scan, 1, Len(to_scan), token, st0)
           st2 == deletion_loop(grammar, i, earley_sets[i + 1], 1, Len(earley_sets[i + 1]),
                                token, st1)
       IN  /\ earley_sets' = Append(earley_sets, st2.set)
           /\ next_to_scan' = st2.to_scan
           /\ node_cache' = st2.cache
    /\ i' = i + 1
    /\ pc' = "alcep_loop"
    /\ UNCHANGED << grammar, tokens, to_scan, items, held_completions, root_alcep >>
    /\ UNCHANGED not_alcep_vars

\* The last compute_earley_set has returned: the rest of BaseParser.parse.
AlcepReturn ==
    /\ pc = "alcep_closure"
    /\ items = <<>>
    /\ i = Len(tokens)
    /\ LET solutions == solutions_of(earley_sets[Len(earley_sets)], {})
       IN  root_alcep' = IF solutions = <<>> THEN Raised ELSE solutions[1]
    /\ pc' = "oalcep_parse"
    /\ UNCHANGED << grammar, tokens, earley_sets, to_scan, next_to_scan, node_cache,
                    items, held_completions, i >>
    /\ UNCHANGED not_alcep_vars

(***************************************************************************)
(* OALCEP: OptimizedBaseParser.parse, __compute_q0_xi, compute_nodes and   *)
(* __compute_edges.                                                        *)
(***************************************************************************)
\* The concatenation of a sequence of sequences: the order in which nested
\* loops run through their bodies.
RECURSIVE SeqConcat(_)
SeqConcat(seqs) == IF seqs = <<>> THEN <<>> ELSE Head(seqs) \o SeqConcat(Tail(seqs))

\* d[key] = val on a dict.
dict_set(d, key, val) == (key :> val) @@ d

\* __compute_q0_xi.__add_item on the threaded state: q_0, x_i and the queue.
q0_add_item(st, item_to_add) ==
    LET fresh == ~ItemIn(item_to_add, st.q_0)
    IN  [st EXCEPT
            !.q_0 = IF fresh THEN Append(@, item_to_add) ELSE @,
            !.items = IF fresh THEN Append(@, item_to_add) ELSE @,
            !.x_i = AddItem(@, item_to_add)]

RECURSIVE q0_add_items(_, _)
q0_add_items(st, to_add) ==
    IF to_add = <<>> THEN st
    ELSE LET added == q0_add_item(st, Head(to_add))
         IN  IF added = added THEN q0_add_items(added, Tail(to_add)) ELSE added

\* One turn of the while loop of __compute_q0_xi.
compute_q0_xi_turn(g, st) ==
    LET item == st.items[Len(st.items)]
        st0 == [st EXCEPT !.items = SubSeq(@, 1, Len(@) - 1)]
    IN  IF item.is_complete
        THEN LET originators == originators_of(st0.q_0, item.s)
             IN  q0_add_items(
                    [st0 EXCEPT !.held = @ \cup {Rules(g)[item.rule].origin}],
                    [n \in 1..Len(originators) |-> advance(g, originators[n])])
        ELSE IF item.expect \in NON_TERMINALS(g)
        THEN LET rules == predictions(g, item.expect)
                 st1 == q0_add_items(st0,
                           [n \in 1..Len(rules) |-> Item(g, rules[n], 0, 0)])
             IN  IF item.expect \in st1.held
                 THEN q0_add_item(st1, advance(g, item)) ELSE st1
        ELSE IF item.expect \in TERMINALS(g)
        THEN q0_add_item(st0, advance(g, item))
        ELSE st0

\* At most turns turns of the while loop, the first half of them first.
RECURSIVE compute_q0_xi_turns(_, _, _)
compute_q0_xi_turns(g, st, turns) ==
    IF st.items = <<>> THEN st
    ELSE IF turns = 1 THEN compute_q0_xi_turn(g, st)
    ELSE LET half == compute_q0_xi_turns(g, st, turns \div 2)
         IN  IF half.items = <<>> THEN half
             ELSE compute_q0_xi_turns(g, half, turns - turns \div 2)

\* The while loop of __compute_q0_xi, in blocks of sixteen turns: it ends
\* when the queue is empty.
RECURSIVE compute_q0_xi_loop(_, _)
compute_q0_xi_loop(g, st) ==
    IF st.items = <<>> THEN st
    ELSE compute_q0_xi_loop(g, compute_q0_xi_turns(g, st, 16))

compute_q0_xi(g, start_items) ==
    compute_q0_xi_loop(g, [q_0 |-> start_items, x_i |-> <<>>,
                           items |-> start_items, held |-> {}])

\* The start items of OptimizedBaseParser.parse: the predicted rules of the
\* start symbol whose origin is the start symbol.
RECURSIVE start_items_from(_, _, _)
start_items_from(g, rules, n) ==
    IF n > Len(rules) THEN <<>>
    ELSE (IF Rules(g)[rules[n]].origin = START
          THEN << Item(g, rules[n], 0, 0) >> ELSE <<>>)
         \o start_items_from(g, rules, n + 1)

\* One assignment nodes_dict[i][j][s] = value of compute_nodes.
node_assignment(ii, j, item) ==
    [key |-> << ii, j, item.s >>,
     val |-> IF ii = j /\ item.ptr = 0 THEN None ELSE SymbolNode(item.s, j, ii)]

\* The assignments of compute_nodes in the order in which it makes them.
node_assignments(q0, xi, n) ==
    SeqConcat([m \in 1..Len(q0) |->
        [ii \in 1..(n + 1) |-> node_assignment(ii - 1, 0, q0[m])]])
    \o
    SeqConcat([m \in 1..Len(xi) |->
        SeqConcat([ii \in 1..n |->
            [j \in 1..ii |-> node_assignment(ii, j, xi[m])]])])

RECURSIVE assign_all(_, _)
assign_all(d, assignments) ==
    IF assignments = <<>> THEN d
    ELSE IF Len(assignments) = 1
    THEN dict_set(d, assignments[1].key, assignments[1].val)
    ELSE LET half == assign_all(d, SubSeq(assignments, 1, Len(assignments) \div 2))
         IN  IF half = half
             THEN assign_all(half, SubSeq(assignments, Len(assignments) \div 2 + 1,
                                          Len(assignments)))
             ELSE half

compute_nodes(q0, xi, n) == assign_all(EmptyDict, node_assignments(q0, xi, n))

\* nodes_dict[i][j][s]; a missing key raises.
lookup(nd, ii, j, s) ==
    IF << ii, j, s >> \in DOMAIN nd THEN nd[<< ii, j, s >>] ELSE Raised

\* One call nodes_dict[ti][tj][ts].add_family(ts, rule, start, left, right).
Edge(nd, ti, tj, ts, rule, start, left, right) ==
    [target |-> lookup(nd, ti, tj, ts), s |-> ts, rule |-> rule, start |-> start,
     left |-> left, right |-> right]

\* The deletion edges of __compute_edges.  The letter of every deletion
\* node is tokens[0].
deletion_edges(g, q0, xi, nd, n, toks) ==
    SeqConcat([m \in 1..Len(q0) |->
        [ii \in 1..n |->
            Edge(nd, ii, 0, q0[m].s, q0[m].rule, 0,
                 lookup(nd, ii - 1, 0, q0[m].s),
                 TokenNode(DeletionOperation(toks[1])))]])
    \o
    SeqConcat([m \in 1..Len(xi) |->
        SeqConcat([ii \in 1..(n - 1) |->
            [j \in 1..ii |->
                Edge(nd, ii + 1, j, xi[m].s, xi[m].rule, j,
                     lookup(nd, ii, j, xi[m].s),
                     TokenNode(DeletionOperation(toks[1])))]])])

\* The insertion edges of __compute_edges.
insertion_edges(g, q0, xi, nd, n) ==
    SeqConcat([m \in 1..Len(q0) |->
        IF q0[m].expect \in TERMINALS(g)
        THEN [ii \in 1..(n + 1) |->
                Edge(nd, ii - 1, 0, advance(g, q0[m]).s, q0[m].rule, 0,
                     lookup(nd, ii - 1, 0, q0[m].s),
                     TokenNode(InsertionOperation(ins_string(q0[m].expect))))]
        ELSE <<>>])
    \o
    SeqConcat([m \in 1..Len(xi) |->
        IF xi[m].expect \in TERMINALS(g)
        THEN SeqConcat([ii \in 1..n |->
                [j \in 1..ii |->
                    Edge(nd, ii, j, advance(g, xi[m]).s, xi[m].rule, j,
                         lookup(nd, ii, j, xi[m].s),
                         TokenNode(InsertionOperation(ins_string(xi[m].expect))))]])
        ELSE <<>>])

\* The token node of the scanner rule or of the replacement rule.
operation_node(item, token_i) ==
    IF term_matcher(item.expect, token_i)
    THEN TokenNode(ReadOperation(token_i))
    ELSE TokenNode(ReplacementOperation(token_i, ins_string(item.expect)))

\* The read and replacement edges of __compute_edges.
read_replace_edges(g, q0, xi, nd, n, toks) ==
    SeqConcat([m \in 1..Len(q0) |->
        IF q0[m].expect \in TERMINALS(g)
        THEN [ii \in 1..n |->
                Edge(nd, ii, 0, advance(g, q0[m]).s, q0[m].rule, 0,
                     lookup(nd, ii - 1, 0, q0[m].s),
                     operation_node(q0[m], toks[ii]))]
        ELSE <<>>])
    \o
    SeqConcat([m \in 1..Len(xi) |->
        IF xi[m].expect \in TERMINALS(g)
        THEN SeqConcat([ii \in 1..(n - 1) |->
                [j \in 1..ii |->
                    Edge(nd, ii + 1, j, advance(g, xi[m]).s, xi[m].rule, j,
                         lookup(nd, ii, j, xi[m].s),
                         operation_node(xi[m], toks[ii + 1]))]])
        ELSE <<>>])

\* item2 expects what the complete item derives.
expects(item2, item) == item2.expect # None /\ item2.expect = item.s

\* The completer edges of __compute_edges.
completer_edges(g, q0, xi, nd, n) ==
    SeqConcat([m \in 1..Len(q0) |->
        IF q0[m].is_complete
        THEN SeqConcat([m2 \in 1..Len(q0) |->
                IF expects(q0[m2], q0[m])
                THEN [ii \in 1..(n + 1) |->
                        Edge(nd, ii - 1, 0, advance(g, q0[m2]).s, q0[m2].rule, 0,
                             lookup(nd, 0, 0, q0[m2].s),
                             lookup(nd, ii - 1, 0, q0[m].s))]
                ELSE <<>>])
        ELSE <<>>])
    \o
    SeqConcat([m \in 1..Len(xi) |->
        IF xi[m].is_complete
        THEN SeqConcat([m2 \in 1..Len(xi) |->
                IF expects(xi[m2], xi[m])
                THEN SeqConcat([ii \in 1..n |->
                        SeqConcat([j \in 1..ii |->
                            [k \in 1..j |->
                                Edge(nd, ii, k, advance(g, xi[m2]).s, xi[m2].rule, k,
                                     lookup(nd, j, k, xi[m2].s),
                                     lookup(nd, ii, j, xi[m].s))]])])
                ELSE <<>>])
             \o
             SeqConcat([m2 \in 1..Len(q0) |->
                IF expects(q0[m2], xi[m])
                THEN SeqConcat([ii \in 1..n |->
                        [j \in 1..ii |->
                            Edge(nd, ii, 0, advance(g, q0[m2]).s, q0[m2].rule, 0,
                                 lookup(nd, j, 0, q0[m2].s),
                                 lookup(nd, ii, j, xi[m].s))]])
                ELSE <<>>])
        ELSE <<>>])

\* The calls of add_family of __compute_edges, one after the other, until
\* one raises: a missing key of nodes_dict, or add_family on None.
RECURSIVE add_edges(_, _)
add_edges(st, edges) ==
    IF edges = <<>> \/ st.raised THEN st
    ELSE IF Len(edges) = 1
    THEN LET e == edges[1]
         IN  IF e.target = Raised \/ e.left = Raised \/ e.right = Raised
                \/ e.target = None
             THEN [st EXCEPT !.raised = TRUE]
             ELSE [st EXCEPT !.cache = add_family(@, e.target, e.s, e.rule,
                                                  e.start, e.left, e.right)]
    ELSE LET half == add_edges(st, SubSeq(edges, 1, Len(edges) \div 2))
         IN  IF half.raised THEN half
             ELSE add_edges(half, SubSeq(edges, Len(edges) \div 2 + 1, Len(edges)))

compute_edges(g, q0, xi, nd, n, toks) ==
    add_edges([cache |-> EmptyDict, raised |-> FALSE],
              deletion_edges(g, q0, xi, nd, n, toks)
              \o insertion_edges(g, q0, xi, nd, n)
              \o read_replace_edges(g, q0, xi, nd, n, toks)
              \o completer_edges(g, q0, xi, nd, n))

\* OptimizedBaseParser.parse up to the end of __compute_q0_xi.
OalcepParse ==
    /\ pc = "oalcep_parse"
    /\ LET st == compute_q0_xi(grammar,
                    start_items_from(grammar, predictions(grammar, START), 1))
       IN  /\ q_0' = st.q_0
           /\ x_i' = st.x_i
    /\ pc' = "oalcep_nodes"
    /\ UNCHANGED << grammar, tokens, nodes_dict, oalcep_cache, root_oalcep >>
    /\ UNCHANGED not_oalcep_vars

\* compute_nodes.
OalcepComputeNodes ==
    /\ pc = "oalcep_nodes"
    /\ nodes_dict' = compute_nodes(q_0, x_i, Len(tokens))
    /\ pc' = "oalcep_edges"
    /\ UNCHANGED << grammar, tokens, q_0, x_i, oalcep_cache, root_oalcep >>
    /\ UNCHANGED not_oalcep_vars

\* The items of a set with the item at place m met last by a loop over the
\* set; m = 0 is the order of insertion.
met_last(set, m) ==
    IF m = 0 THEN set
    ELSE SubSeq(set, 1, m - 1) \o SubSeq(set, m + 1, Len(set)) \o << set[m] >>

\* compute_nodes of a parser with ordered_sets = False: q_0 and x_i are
\* plain sets, and the order in which a loop meets their items is the
\* order of the hash table.  Any item may be the one that is met last.
OalcepComputeNodesUnordered ==
    /\ pc = "oalcep_nodes"
    /\ \E mq \in 0..Len(q_0), mx \in 0..Len(x_i) :
          nodes_dict' = compute_nodes(met_last(q_0, mq), met_last(x_i, mx), Len(tokens))
    /\ pc' = "oalcep_edges"
    /\ UNCHANGED << grammar, tokens, q_0, x_i, oalcep_cache, root_oalcep >>
    /\ UNCHANGED not_oalcep_vars

\* __compute_edges and the rest of OptimizedBaseParser.parse.
OalcepComputeEdges ==
    /\ pc = "oalcep_edges"
    /\ LET st == compute_edges(grammar, q_0, x_i, nodes_dict, Len(tokens), tokens)
       IN  /\ oalcep_cache' = st.cache
           /\ root_oalcep' = IF st.raised THEN Raised
                             ELSE lookup(nodes_dict, Len(tokens), 0, START)
    /\ pc' = "oalcep_done"
    /\ UNCHANGED << grammar, tokens, q_0, x_i, nodes_dict >>
    /\ UNCHANGED not_oalcep_vars

(***************************************************************************)
(* Counted corrections and the corrections of a token node.                *)
(***************************************************************************)
\* A cap of -1 is no cap.
exceeds(counter, max_number) == max_number # -1 /\ counter > max_number

\* WordOrderedCorrectionWithCounterOfEdits.concatenate; caps are the class
\* attributes max_number_of_*.
WordOrderedCorrectionWithCounterOfEdits_concatenate(self, other, simplify, caps) ==
    IF self.operations = <<>> \/ other.operations = <<>>
    THEN IF self.operations = <<>> THEN other ELSE self
    ELSE IF simplify /\ can_simplify(self, other) THEN None
    ELSE LET new_counter_of_insertions ==
                 self.counter_of_insertions + other.counter_of_insertions
             new_counter_of_deletions ==
                 self.counter_of_deletions + other.counter_of_deletions
             new_counter_of_replacements ==
                 self.counter_of_replacements + other.counter_of_replacements
             sum_of_edits == new_counter_of_insertions + new_counter_of_deletions
                             + new_counter_of_replacements
         IN  IF exceeds(new_counter_of_insertions, caps.insertions) THEN None
             ELSE IF exceeds(new_counter_of_deletions, caps.deletions) THEN None
             ELSE IF exceeds(new_counter_of_replacements, caps.replacement) THEN None
             ELSE IF exceeds(sum_of_edits, caps.edits) THEN None
             ELSE [operations |-> fused_operations(self.operations, other.operations),
                   counter_of_insertions |-> new_counter_of_insertions,
                   counter_of_replacements |-> new_counter_of_replacements,
                   counter_of_deletions |-> new_counter_of_deletions]

\* The Read of a token is split into one Read per character.
RECURSIVE split_read(_, _)
split_read(letter, n) ==
    IF n > Len(letter) THEN <<>>
    ELSE << ReadOperation(<< letter[n] >>), InsertionOperation(<<>>) >>
         \o split_read(letter, n + 1)

\* The correction that visit_token_node makes of an edit operation.
token_correction(node, use_corrections_with_edit_counter) ==
    IF use_corrections_with_edit_counter
    THEN CASE node.op = "Ins" ->
                [WordOrderedCorrection(<< node >>) EXCEPT !.counter_of_insertions = 1]
           [] node.op = "Rep" ->
                [WordOrderedCorrection(<< InsertionOperation(<<>>), node,
                                          InsertionOperation(<<>>) >>)
                    EXCEPT !.counter_of_replacements = 1]
           [] node.op = "Read" ->
                WordOrderedCorrection(<< InsertionOperation(<<>>) >>
                                      \o split_read(node.letter, 1))
           [] OTHER ->
                [WordOrderedCorrection(<< InsertionOperation(<<>>), node,
                                          InsertionOperation(<<>>) >>)
                    EXCEPT !.counter_of_deletions = 1]
    ELSE IF node.op = "Ins" THEN WordOrderedCorrection(<< node >>)
         ELSE WordOrderedCorrection(<< InsertionOperation(<<>>), node,
                                       InsertionOperation(<<>>) >>)

(***************************************************************************)
(* Sets of corrections.  A correction has no __eq__ and no __hash__: a set *)
(* holds objects, and two objects with the same operations are two         *)
(* members.  An object is a record of its identity and its correction;     *)
(* an ordered set is a sequence of objects with different identities.      *)
(***************************************************************************)
Object(id, c) == [id |-> id, c |-> c]

ids_of(set) == { set[n].id : n \in 1..Len(set) }

\* OrderedSet.union: the members of other that are not in self come last.
union(self, other) ==
    self \o SelectSeq(other, LAMBDA member : member.id \notin ids_of(self))

\* A faulty inner loop that keeps a correction2 that correction1 is smaller
\* than among the possible smallest.
RECURSIVE inner_without_removal(_, _, _, _, _)
inner_without_removal(list, n, lo, hi, st) ==
    IF lo > hi THEN st
    ELSE LET r == WordOrderedCorrection_compare(list[n].c, list[lo].c)
         IN  CASE r = RAISED -> [st EXCEPT !.raised = TRUE]
               [] r = CORRECTION_BIGGER ->
                     [st EXCEPT !.possible = @ \ {list[n].id}, !.keep = FALSE]
               [] OTHER -> inner_without_removal(list, n, lo + 1, hi, st)

\* A faulty outer loop that compares correction1 with its successor only.
RECURSIVE outer_comparing_next_only(_, _, _, _)
outer_comparing_next_only(list, lo, hi, st) ==
    IF lo > hi \/ st.raised THEN st
    ELSE IF list[lo].id \in st.possible
    THEN LET r == IF lo < Len(list)
                  THEN WordOrderedCorrection_compare(list[lo].c, list[lo + 1].c)
                  ELSE CORRECTION_EQUAL
             st1 == CASE r = RAISED -> [st EXCEPT !.raised = TRUE]
                      [] r = CORRECTION_SMALLER ->
                            [st EXCEPT !.possible = @ \ {list[lo + 1].id},
                                       !.smallest = Append(@, list[lo])]
                      [] r = CORRECTION_BIGGER ->
                            [st EXCEPT !.possible = @ \ {list[lo].id}]
                      [] OTHER -> [st EXCEPT !.smallest = Append(@, list[lo])]
         IN  IF st1.raised THEN st1
             ELSE outer_comparing_next_only(list, lo + 1, hi, st1)
    ELSE outer_comparing_next_only(list, lo + 1, hi, st)

\* The inner loop of __compute_smallest_corrections on correction1 =
\* list[n], for correction2 = list[lo], ..., list[hi]: st.possible is
\* possible_smallest, st.keep is exist_no_smaller.  A long run is split in
\* two halves; the second half runs unless the first has left the loop.
RECURSIVE smallest_inner(_, _, _, _, _)
smallest_inner(list, n, lo, hi, st) ==
    IF lo > hi THEN st
    ELSE IF lo = hi
    THEN LET r == WordOrderedCorrection_compare(list[n].c, list[lo].c)
         IN  CASE r = RAISED -> [st EXCEPT !.raised = TRUE]
               [] r = CORRECTION_SMALLER ->
                     [st EXCEPT !.possible = @ \ {list[lo].id}]
               [] r = CORRECTION_BIGGER ->
                     [st EXCEPT !.possible = @ \ {list[n].id}, !.keep = FALSE]
               [] OTHER -> st
    ELSE LET half == smallest_inner(list, n, lo, (lo + hi) \div 2, st)
         IN  IF half.raised \/ ~half.keep THEN half
             ELSE smallest_inner(list, n, (lo + hi) \div 2 + 1, hi, half)

\* The outer loop of __compute_smallest_corrections for correction1 =
\* list[lo], ..., list[hi], split in the same way.
RECURSIVE smallest_outer(_, _, _, _)
smallest_outer(list, lo, hi, st) ==
    IF lo > hi \/ st.raised THEN st
    ELSE IF lo = hi
    THEN IF list[lo].id \in st.possible
         THEN LET st1 == smallest_inner(list, lo, lo + 1, Len(list),
                                        [st EXCEPT !.keep = TRUE])
              IN  IF ~st1.raised /\ st1.keep
                  THEN [st1 EXCEPT !.smallest = Append(@, list[lo])]
                  ELSE st1
         ELSE st
    ELSE LET half == smallest_outer(list, lo, (lo + hi) \div 2, st)
         IN  IF half.raised THEN half
             ELSE smallest_outer(list, (lo + hi) \div 2 + 1, hi, half)

\* What a call returns: a value, or nothing because the python code raised.
Returned(value) == [k |-> "returned", value |-> value]

\* __compute_smallest_corrections: the set of the smallest corrections, or
\* Raised when a comparison raises.
compute_smallest_corrections(set_of_corrections) ==
    LET st == smallest_outer(set_of_corrections, 1, Len(set_of_corrections),
                  [possible |-> ids_of(set_of_corrections), smallest |-> <<>>,
                   keep |-> TRUE, raised |-> FALSE])
    IN  IF st.raised THEN Raised ELSE Returned(st.smallest)

(***************************************************************************)
(* CSPPFToCorrectionTransformer.  A path_to_node is a tuple of symbol      *)
(* nodes or None; no tuple is empty, and None is the empty sequence.  A    *)
(* packed node is the record of its parent and its children: its identity. *)
(***************************************************************************)
\* The configurations of the constructor that are run: only_simplified,
\* only_smallest, smallest_dynamically, corrections_with_edit_counter and
\* the four maxima.
Config(simplified, smallest, dynamically, counted, max_ins, max_rep, max_del, max_edits) ==
    [only_simplified |-> simplified, only_smallest |-> smallest,
     smallest_dynamically |-> dynamically,
     corrections_with_edit_counter |-> counted,
     max_number_of_insertions |-> max_ins, max_number_of_replacement |-> max_rep,
     max_number_of_deletions |-> max_del, max_number_of_edits |-> max_edits]

Configs ==
    { Config(FALSE, FALSE, FALSE, FALSE, -1, -1, -1, -1),
      Config(TRUE, FALSE, FALSE, FALSE, -1, -1, -1, -1),
      Config(FALSE, TRUE, FALSE, FALSE, -1, -1, -1, -1),
      Config(TRUE, TRUE, TRUE, FALSE, -1, -1, -1, -1),
      Config(FALSE, FALSE, FALSE, TRUE, -1, -1, -1, 0),
      Config(FALSE, FALSE, FALSE, TRUE, 1, 0, 1, -1),
      Config(FALSE, TRUE, FALSE, TRUE, -1, -1, -1, -1) }

\* The class attributes before any transformer is constructed.
NoCaps == [insertions |-> -1, replacement |-> -1, deletions |-> -1, edits |-> -1]

\* The forest that is walked, and its root.
Forest == IF options.parser = "alcep" THEN node_cache ELSE oalcep_cache

Root == IF options.parser = "alcep" THEN root_alcep ELSE root_oalcep

PackedRef(parent, p) ==
    [k |-> "packed", parent |-> parent, left |-> p.left, right |-> p.right]

\* node.children of a symbol node, as the packed nodes they are.
node_children(forest, node) ==
    IF node \in DOMAIN forest
    THEN LET sorted == children(grammar, forest[node])
         IN  [n \in 1..Len(sorted) |-> PackedRef(node, sorted[n])]
    ELSE <<>>

\* hash(node): a symbol node hashes its label, a token node its token, a
\* packed node its (left, right).
hash(node) ==
    IF node.k = "packed" THEN [k |-> "packed", left |-> node.left, right |-> node.right]
    ELSE node

\* A push guard that lets every node through.
never_in_path(next_node, p) == FALSE

\* A push guard that looks at the last node of the path only.
last_of_path(next_node, p) == p # <<>> /\ hash(p[Len(p)]) = hash(next_node)

\* next_node in path: the == of the node classes agrees with their hash.
in_path(next_node, p) == \E n \in 1..Len(p) : hash(p[n]) = hash(next_node)

\* new_path_to_node of visit_symbol_node_in and visit_symbol_node_out.
new_path_to_node(node, path_to_node) ==
    IF path_to_node # <<>> THEN Append(path_to_node, node)
    ELSE IF node.start = node.end THEN << node >>
    ELSE <<>>

\* What the generator of visit_packed_node_in yields.
visit_packed_node_in(node, path_to_node) ==
    (IF node.left # None THEN << << node.left, path_to_node >> >> ELSE <<>>)
    \o (IF node.right # None THEN << << node.right, path_to_node >> >> ELSE <<>>)

\* The list that visit_symbol_node_in iterates.
visit_symbol_node_in(forest, node, path_to_node) ==
    LET kids == node_children(forest, node)
    IN  [n \in 1..Len(kids) |-> << kids[n], new_path_to_node(node, path_to_node) >>]

\* The frames of the input stack: a (node, path) tuple, or an iterator with
\* what it has still to deliver.
NodeFrame(node, path_to_node) == [t |-> "node", node |-> node, path |-> path_to_node]

IterFrame(rest) == [t |-> "iter", rest |-> rest]

\* The new_correction of one (left_correction, right_correction) of the
\* product.
product_concatenate(left_correction, right_correction, opts) ==
    IF opts.corrections_with_edit_counter
    THEN WordOrderedCorrectionWithCounterOfEdits_concatenate(
             left_correction.c, right_correction.c, opts.only_simplified, opts.caps)
    ELSE WordOrderedCorrection_concatenate(
             left_correction.c, right_correction.c, opts.only_simplified)

\* The loop over product(left_corrections, right_corrections): the right
\* corrections vary fastest, and every new_correction that is not None is
\* a new object of the set.
product_loop(left_corrections, right_corrections, opts, st) ==
    LET width == Len(right_corrections)
        all == [m \in 1..(Len(left_corrections) * width) |->
                   product_concatenate(left_corrections[(m - 1) \div width + 1],
                                       right_corrections[((m - 1) % width) + 1], opts)]
        added == SelectSeq(all, LAMBDA new_correction : new_correction # None)
    IN  [set |-> st.set \o [m \in 1..Len(added) |-> Object(st.next_id + m - 1, added[m])],
         next_id |-> st.next_id + Len(added)]

\* self.corrections[hash(node)][path_to_node] = the set, or the smallest
\* of the set; memo is [corrections, next_id, raised].
store(memo, node, path_to_node, set, next, opts) ==
    IF opts.only_smallest /\ opts.smallest_dynamically
    THEN LET smallest == compute_smallest_corrections(set)
         IN  IF smallest = Raised
             THEN [corrections |-> memo.corrections, next_id |-> next, raised |-> TRUE]
             ELSE [corrections |-> dict_set(memo.corrections,
                                            << hash(node), path_to_node >>,
                                            smallest.value),
                   next_id |-> next, raised |-> FALSE]
    ELSE [corrections |-> dict_set(memo.corrections, << hash(node), path_to_node >>, set),
          next_id |-> next, raised |-> FALSE]

visit_packed_node_out(memo, node, path_to_node, opts) ==
    LET right_key == IF node.right.k = "tok" THEN << hash(node.right), <<>> >>
                     ELSE << hash(node.right), path_to_node >>
        left_key == << hash(node.left), path_to_node >>
    IN  IF right_key \notin DOMAIN memo.corrections THEN memo
        ELSE IF node.left # None
        THEN IF left_key \notin DOMAIN memo.corrections THEN memo
             ELSE LET st == product_loop(memo.corrections[left_key],
                                         memo.corrections[right_key], opts,
                                         [set |-> <<>>, next_id |-> memo.next_id])
                  IN  IF st.set # <<>>
                      THEN store(memo, node, path_to_node, st.set, st.next_id, opts)
                      ELSE memo
        ELSE [memo EXCEPT !.corrections =
                 dict_set(@, << hash(node), path_to_node >>, memo.corrections[right_key])]

\* The loop of visit_symbol_node_out over node.children.
RECURSIVE union_children(_, _, _, _)
union_children(corr, kids, new_path, st) ==
    IF kids = <<>> THEN st
    ELSE LET next == IF << hash(Head(kids)), new_path >> \in DOMAIN corr
                     THEN [set |-> union(st.set, corr[<< hash(Head(kids)), new_path >>]),
                           at_least_one |-> TRUE]
                     ELSE st
         IN  IF next = next THEN union_children(corr, Tail(kids), new_path, next)
             ELSE next

visit_symbol_node_out(memo, forest, node, path_to_node, opts) ==
    LET st == union_children(memo.corrections, node_children(forest, node),
                             new_path_to_node(node, path_to_node),
                             [set |-> <<>>, at_least_one |-> FALSE])
    IN  IF st.at_least_one
        THEN store(memo, node, path_to_node, st.set, memo.next_id, opts)
        ELSE memo

\* The maxima kept with the transformer that transforms, and not with the
\* class of the counted corrections.
OptsOfInstance ==
    [only_simplified |-> options.only_simplified,
     only_smallest |-> options.only_smallest,
     smallest_dynamically |-> options.smallest_dynamically,
     corrections_with_edit_counter |-> options.corrections_with_edit_counter,
     caps |-> [insertions |-> options.max_number_of_insertions,
               replacement |-> options.max_number_of_replacement,
               deletions |-> options.max_number_of_deletions,
               edits |-> options.max_number_of_edits]]

\* The options an out visit reads, with the class attributes of the counted
\* corrections.
Opts ==
    [only_simplified |-> options.only_simplified,
     only_smallest |-> options.only_smallest,
     smallest_dynamically |-> options.smallest_dynamically,
     corrections_with_edit_counter |-> options.corrections_with_edit_counter,
     caps |-> max_number_of]

Memo == [corrections |-> corrections, next_id |-> next_id, raised |-> FALSE]

\* The most transformers that are constructed before one of them transforms.
MaxTransformers == 2

\* An out visit has ended: its writes, or the exception that ends transform.
walk_write(memo) ==
    /\ corrections' = memo.corrections
    /\ next_id' = memo.next_id
    /\ IF memo.raised
       THEN /\ result' = Raised
            /\ pc' = "done"
            /\ UNCHANGED << input_stack, visiting, visited, path >>
       ELSE /\ input_stack' = SubSeq(input_stack, 1, Len(input_stack) - 1)
            /\ path' = SubSeq(path, 1, Len(path) - 1)
            /\ visiting' = visiting \ { << input_stack[Len(input_stack)].node,
                                           input_stack[Len(input_stack)].path >> }
            /\ visited' = visited \cup { << input_stack[Len(input_stack)].node,
                                            input_stack[Len(input_stack)].path >> }
            /\ UNCHANGED << result, pc >>

\* A transformer is constructed for the root of one of the parsers, and
\* transform starts: the assert on the root and the start of __visit.
Transform ==
    /\ pc = "oalcep_done"
    /\ \E config \in Configs, parser \in {"alcep", "oalcep"} :
          LET root == IF parser = "alcep" THEN root_alcep ELSE root_oalcep
          IN  /\ root # Raised
              /\ options' = [parser |-> parser] @@ config
              /\ max_number_of' =
                    IF config.corrections_with_edit_counter
                    THEN [insertions |-> config.max_number_of_insertions,
                          replacement |-> config.max_number_of_replacement,
                          deletions |-> config.max_number_of_deletions,
                          edits |-> config.max_number_of_edits]
                    ELSE max_number_of
              /\ IF root.k = "sym"
                 THEN /\ input_stack' = << NodeFrame(root, <<>>) >>
                      /\ pc' = "visit"
                      /\ UNCHANGED result
                 ELSE /\ result' = Raised
                      /\ pc' = "done"
                      /\ UNCHANGED input_stack
    /\ UNCHANGED << visiting, visited, visited_token_nodes, path, corrections, next_id >>
    /\ UNCHANGED not_transformer_vars

\* A transformer is constructed, and does not transform yet: with counted
\* corrections __init__ writes the four class attributes.
Construct ==
    /\ pc = "oalcep_done"
    /\ Len(constructed) < MaxTransformers
    /\ \E config \in Configs :
          /\ constructed' = Append(constructed, config)
          /\ max_number_of' =
                IF config.corrections_with_edit_counter
                THEN [insertions |-> config.max_number_of_insertions,
                      replacement |-> config.max_number_of_replacement,
                      deletions |-> config.max_number_of_deletions,
                      edits |-> config.max_number_of_edits]
                ELSE max_number_of
    /\ UNCHANGED << pc, options, walk_vars, result, returned >>
    /\ UNCHANGED << grammar, tokens, alcep_vars, oalcep_vars, algebra_vars,
                    comparison_vars, alciep_vars >>

\* transform of one of the transformers that are constructed, up to the call
\* of __visit.
TransformConstructed ==
    /\ pc = "oalcep_done"
    /\ \E t \in 1..Len(constructed), parser \in {"alcep", "oalcep"} :
          LET root == IF parser = "alcep" THEN root_alcep ELSE root_oalcep
          IN  /\ root # Raised
              /\ options' = [parser |-> parser, transformer |-> t] @@ constructed[t]
              /\ IF root.k = "sym"
                 THEN /\ input_stack' = << NodeFrame(root, <<>>) >>
                      /\ pc' = "visit"
                      /\ UNCHANGED result
                 ELSE /\ result' = Raised
                      /\ pc' = "done"
                      /\ UNCHANGED input_stack
    /\ UNCHANGED << max_number_of, visiting, visited, visited_token_nodes, path,
                    corrections, next_id >>
    /\ UNCHANGED not_transformer_vars

\* After a transformer with only_smallest, plain corrections that are not
\* simplified and the filter at the root has returned: a new transformer
\* with smallest_dynamically transforms the same root, up to the call of
\* __visit.  Its self.corrections is empty.
TransformDynamically ==
    /\ pc = "done"
    /\ returned = <<>>
    /\ result.k = "returned"
    /\ options.only_smallest
    /\ ~options.smallest_dynamically
    /\ ~options.only_simplified
    /\ ~options.corrections_with_edit_counter
    /\ returned' = << result >>
    /\ options' = [options EXCEPT !.smallest_dynamically = TRUE]
    /\ input_stack' = << NodeFrame(Root, <<>>) >>
    /\ visiting' = {}
    /\ visited' = {}
    /\ visited_token_nodes' = {}
    /\ path' = <<>>
    /\ corrections' = EmptyDict
    /\ result' = None
    /\ pc' = "visit"
    /\ UNCHANGED << max_number_of, next_id, constructed >>
    /\ UNCHANGED << grammar, tokens, alcep_vars, oalcep_vars, algebra_vars,
                    comparison_vars, alciep_vars >>

\* One turn of the loop of __visit: the iterator on top of the stack is at
\* its end.
VisitStopIteration ==
    /\ pc = "visit"
    /\ input_stack # <<>>
    /\ LET current_object == input_stack[Len(input_stack)]
       IN  /\ current_object.t = "iter"
           /\ current_object.rest = <<>>
    /\ input_stack' = SubSeq(input_stack, 1, Len(input_stack) - 1)
    /\ UNCHANGED << pc, options, max_number_of, visiting, visited, visited_token_nodes,
                    path, corrections, next_id, result >>
    /\ UNCHANGED not_transformer_vars

\* One turn of the loop of __visit: the iterator on top of the stack
\* delivers its next (node, path), which is pushed unless the node is in
\* path.  visiting holds ids of nodes and never the hash of one.
VisitNext ==
    /\ pc = "visit"
    /\ input_stack # <<>>
    /\ LET current_object == input_stack[Len(input_stack)]
       IN  /\ current_object.t = "iter"
           /\ current_object.rest # <<>>
           /\ LET next_object == Head(current_object.rest)
                  next_node == next_object[1]
                  advanced == [input_stack EXCEPT ![Len(input_stack)] =
                                  IterFrame(Tail(current_object.rest))]
              IN  input_stack' =
                     IF in_path(next_node, path) THEN advanced
                     ELSE Append(advanced, NodeFrame(next_node, next_object[2]))
    /\ UNCHANGED << pc, options, max_number_of, visiting, visited, visited_token_nodes,
                    path, corrections, next_id, result >>
    /\ UNCHANGED not_transformer_vars

\* One turn of the loop of __visit on a token node, with visit_token_node.
VisitTokenNode ==
    /\ pc = "visit"
    /\ input_stack # <<>>
    /\ LET current_object == input_stack[Len(input_stack)]
           current_node == current_object.node
       IN  /\ current_object.t = "node"
           /\ current_node.k = "tok"
           /\ IF hash(current_node) \notin visited_token_nodes
              THEN /\ corrections' =
                         dict_set(corrections, << hash(current_node), <<>> >>,
                            << Object(next_id,
                                  token_correction(current_node.token,
                                     options.corrections_with_edit_counter)) >>)
                   /\ next_id' = next_id + 1
                   /\ visited_token_nodes' = visited_token_nodes \cup {hash(current_node)}
              ELSE UNCHANGED << corrections, next_id, visited_token_nodes >>
    /\ input_stack' = SubSeq(input_stack, 1, Len(input_stack) - 1)
    /\ UNCHANGED << pc, options, max_number_of, visiting, visited, path, result >>
    /\ UNCHANGED not_transformer_vars

\* One turn of the loop of __visit on a node that is visited for the second
\* time on its path: visit_packed_node_out or visit_symbol_node_out.
VisitOut ==
    /\ pc = "visit"
    /\ input_stack # <<>>
    /\ LET current_object == input_stack[Len(input_stack)]
           current_node == current_object.node
       IN  /\ current_object.t = "node"
           /\ current_node.k # "tok"
           /\ << current_node, current_object.path >> \in visiting
           /\ IF current_node.k = "packed"
              THEN walk_write(visit_packed_node_out(Memo, current_node,
                                                    current_object.path, Opts))
              ELSE walk_write(visit_symbol_node_out(Memo, Forest, current_node,
                                                    current_object.path, Opts))
    /\ UNCHANGED << options, max_number_of, visited_token_nodes >>
    /\ UNCHANGED not_transformer_vars

\* One turn of the loop of __visit on a node that was visited twice.
VisitVisited ==
    /\ pc = "visit"
    /\ input_stack # <<>>
    /\ LET current_object == input_stack[Len(input_stack)]
       IN  /\ current_object.t = "node"
           /\ current_object.node.k # "tok"
           /\ << current_object.node, current_object.path >> \notin visiting
           /\ << current_object.node, current_object.path >> \in visited
    /\ input_stack' = SubSeq(input_stack, 1, Len(input_stack) - 1)
    /\ UNCHANGED << pc, options, max_number_of, visiting, visited, visited_token_nodes,
                    path, corrections, next_id, result >>
    /\ UNCHANGED not_transformer_vars

\* One turn of the loop of __visit on a node that is new on its path:
\* visit_packed_node_in or visit_symbol_node_in.
VisitIn ==
    /\ pc = "visit"
    /\ input_stack # <<>>
    /\ LET current_object == input_stack[Len(input_stack)]
           current_node == current_object.node
       IN  /\ current_object.t = "node"
           /\ current_node.k # "tok"
           /\ << current_node, current_object.path >> \notin visiting
           /\ << current_node, current_object.path >> \notin visited
           /\ visiting' = visiting \cup { << current_node, current_object.path >> }
           /\ path' = Append(path, current_node)
           /\ input_stack' = Append(input_stack,
                 IterFrame(IF current_node.k = "packed"
                           THEN visit_packed_node_in(current_node, current_object.path)
                           ELSE visit_symbol_node_in(Forest, current_node,
                                                     current_object.path)))
    /\ UNCHANGED << pc, options, max_number_of, visited, visited_token_nodes,
                    corrections, next_id, result >>
    /\ UNCHANGED not_transformer_vars

\* __visit has returned: the rest of transform.
TransformReturn ==
    /\ pc = "visit"
    /\ input_stack = <<>>
    /\ LET set == IF << hash(Root), <<>> >> \in DOMAIN corrections
                  THEN corrections[<< hash(Root), <<>> >>] ELSE <<>>
       IN  result' = IF options.only_smallest /\ ~options.smallest_dynamically
                     THEN compute_smallest_corrections(set)
                     ELSE Returned(set)
    /\ pc' = "done"
    /\ UNCHANGED << options, max_number_of, walk_vars >>
    /\ UNCHANGED not_transformer_vars

(***************************************************************************)
(* The equality of two CSPPFs                                              *)
(* (lark/corrections/utils/equality_of_correction_sppfs.py).               *)
(***************************************************************************)
\* node.children of a node of a forest, as the families they are.
families_of(g, forest, node) ==
    IF node \in DOMAIN forest THEN children(g, forest[node]) ELSE <<>>

\* Two nodes are both None, or of one type with the same label or token.
equal_node_without_child(node1, node2) == node1 = node2

\* child and child2 agree on s, on start and on their left and right nodes.
equal_packed(child, child2) ==
    /\ child.s = child2.s
    /\ child.start = child2.start
    /\ equal_node_without_child(child.left, child2.left)
    /\ equal_node_without_child(child.right, child2.right)

\* The pairs that the inner loop of equal_children collects for child.
RECURSIVE pairs_of(_, _)
pairs_of(child, children2) ==
    IF children2 = <<>> THEN <<>>
    ELSE (IF equal_packed(child, Head(children2))
          THEN << << child, Head(children2) >> >> ELSE <<>>)
         \o pairs_of(child, Tail(children2))

\* equal_children: False, or the pairs of the last child of node1 (pairs is
\* reset for every child); with no child at all, pairs is unbound at the
\* return and the call raises.
equal_children(children1, children2) ==
    IF Len(children1) # Len(children2) THEN [k |-> "false"]
    ELSE IF \E n \in 1..Len(children1) : pairs_of(children1[n], children2) = <<>>
    THEN [k |-> "false"]
    ELSE IF children1 = <<>> THEN Raised
    ELSE Returned(pairs_of(children1[Len(children1)], children2))

\* The loop over child_pairs of equal: the children of the pairs that are
\* not in visited_nodes are pushed; a packed node is in visited_nodes when a
\* packed node with equal children is.
RECURSIVE push_pairs(_, _)
push_pairs(child_pairs, st) ==
    IF child_pairs = <<>> THEN st
    ELSE LET child1 == Head(child_pairs)[1]
             child2 == Head(child_pairs)[2]
             key == << child1.left, child1.right >>
         IN  push_pairs(Tail(child_pairs),
                IF key \in st.visited_nodes THEN st
                ELSE [q |-> st.q \o << << child1.left, child2.left >>,
                                       << child1.right, child2.right >> >>,
                      visited_nodes |-> st.visited_nodes \cup {key}])

\* The while loop of equal: TRUE, FALSE or Raised.
RECURSIVE equal_loop(_, _, _, _)
equal_loop(g, forest1, forest2, st) ==
    IF st.q = <<>> THEN Returned(TRUE)
    ELSE LET node1 == st.q[Len(st.q)][1]
             node2 == st.q[Len(st.q)][2]
             st0 == [st EXCEPT !.q = SubSeq(@, 1, Len(@) - 1)]
         IN  IF ~equal_node_without_child(node1, node2) THEN Returned(FALSE)
             ELSE IF node1.k = "sym"
             THEN LET child_pairs == equal_children(families_of(g, forest1, node1),
                                                    families_of(g, forest2, node2))
                  IN  IF child_pairs = Raised THEN Raised
                      ELSE IF child_pairs.k = "false" THEN Returned(FALSE)
                      ELSE equal_loop(g, forest1, forest2,
                                      push_pairs(child_pairs.value, st0))
             ELSE equal_loop(g, forest1, forest2, st0)

equal(g, forest1, root_node1, forest2, root_node2) ==
    IF ~equal_node_without_child(root_node1, root_node2) THEN Returned(FALSE)
    ELSE equal_loop(g, forest1, forest2,
                    [q |-> << << root_node1, root_node2 >> >>, visited_nodes |-> {}])

(***************************************************************************)
(* The algebra of corrections on operands of its own: concatenate on three *)
(* corrections, and __compute_smallest_corrections on a set and on its own *)
(* result.                                                                 *)
(***************************************************************************)
\* The words of the first and of the last insertion of an operand, and the
\* operations between them.
FirstWords == { <<>>, <<"a">> }

LastWords == { <<"a">>, <<"b">>, <<"a", "b">> }

LetterOperations ==
    { ReadOperation(<<"a">>), DeletionOperation(<<"a">>),
      ReplacementOperation(<<"a">>, <<"b">>) }

\* The corrections of one insertion, and of one letter.
InsertionCorrections ==
    { WordOrderedCorrection(<< InsertionOperation(w) >>) : w \in { <<>>, <<"a", "b">> } }

LetterCorrections ==
    { WordOrderedCorrection(<< InsertionOperation(u), e, InsertionOperation(v) >>) :
        u \in FirstWords, e \in LetterOperations, v \in LastWords }

EmptyCorrection == WordOrderedCorrection(<<>>)

Operands == InsertionCorrections \cup LetterCorrections

\* The sets of at most MaxSetSize objects, in every iteration order; two
\* objects of a set can have the same operations.
SetsOfCorrections ==
    UNION { { [n \in 1..k |-> Object(n, f[n])] : f \in [1..k -> Operands] } :
            k \in 0..MaxSetSize }

\* a.concatenate(b, simplify=False).concatenate(c, simplify=False) and
\* a.concatenate(b.concatenate(c, simplify=False), simplify=False).
Concatenate ==
    /\ pc = "concatenate"
    /\ concatenated' =
          << WordOrderedCorrection_concatenate(
                 WordOrderedCorrection_concatenate(operands[1], operands[2], FALSE),
                 operands[3], FALSE),
             WordOrderedCorrection_concatenate(
                 operands[1],
                 WordOrderedCorrection_concatenate(operands[2], operands[3], FALSE),
                 FALSE) >>
    /\ pc' = "algebra_done"
    /\ UNCHANGED << operands, filter_input, filter_output, filter_output_again >>
    /\ UNCHANGED not_algebra_vars

\* __compute_smallest_corrections(S).
Filter ==
    /\ pc = "filter"
    /\ filter_output' = compute_smallest_corrections(filter_input)
    /\ pc' = "filter_again"
    /\ UNCHANGED << operands, concatenated, filter_input, filter_output_again >>
    /\ UNCHANGED not_algebra_vars

\* __compute_smallest_corrections on what it returned, if it returned.
FilterAgain ==
    /\ pc = "filter_again"
    /\ filter_output_again' = IF filter_output = Raised THEN Raised
                         ELSE compute_smallest_corrections(filter_output.value)
    /\ pc' = "algebra_done"
    /\ UNCHANGED << operands, concatenated, filter_input, filter_output >>
    /\ UNCHANGED not_algebra_vars

(***************************************************************************)
(* The comparisons on operands of their own: compare on two edit           *)
(* operations, compare on two corrections, and concatenate with and        *)
(* without simplify on two corrections.                                    *)
(***************************************************************************)
\* The longest word of an insertion that is compared.
MaxWord == 3

Alphabet == { "a", "b" }

\* The one-letter strings and the words of at most MaxWord letters.
Letters == { << x >> : x \in Alphabet }

InsertedWords == UNION { [1..n -> Alphabet] : n \in 0..MaxWord }

\* The edit operations over the alphabet.
ComparedOperations ==
    { InsertionOperation(w) : w \in InsertedWords }
    \cup { ReadOperation(x) : x \in Letters }
    \cup { DeletionOperation(x) : x \in Letters }
    \cup { ReplacementOperation(x, y) : x \in Letters, y \in Letters }

\* self.compare(other) on two edit operations.
CompareOperations ==
    /\ pc = "compare_operations"
    /\ outcome' = EditOperation_compare(compared[1], compared[2])
    /\ pc' = "operations_compared"
    /\ UNCHANGED compared
    /\ UNCHANGED not_comparison_vars

\* self.compare(other) on two corrections.
CompareCorrections ==
    /\ pc = "compare_corrections"
    /\ outcome' = WordOrderedCorrection_compare(compared[1], compared[2])
    /\ pc' = "corrections_compared"
    /\ UNCHANGED compared
    /\ UNCHANGED not_comparison_vars

\* The words at the boundary of a concatenation, and the operations next
\* to them.
BoundaryWords == { <<>>, << "a" >>, << "a", "b" >>, << "b", "a" >> }

BoundaryOperations ==
    { ReadOperation(<< "a" >>), DeletionOperation(<< "a" >>), DeletionOperation(<< "b" >>),
      ReplacementOperation(<< "a" >>, << "b" >>),
      ReplacementOperation(<< "b" >>, << "a" >>) }

\* The corrections that are concatenated: none is empty.
BoundaryOperands ==
    { WordOrderedCorrection(<< InsertionOperation(w) >>) : w \in BoundaryWords }
    \cup { WordOrderedCorrection(<< InsertionOperation(u), e, InsertionOperation(v) >>) :
             u \in BoundaryWords, e \in BoundaryOperations, v \in BoundaryWords }

\* self.concatenate(other, simplify=True) and self.concatenate(other,
\* simplify=False).
ConcatenateSimplified ==
    /\ pc = "concatenate_simplified"
    /\ outcome' =
          [simplified |-> WordOrderedCorrection_concatenate(compared[1], compared[2], TRUE),
           plain |-> WordOrderedCorrection_concatenate(compared[1], compared[2], FALSE)]
    /\ pc' = "concatenation_done"
    /\ UNCHANGED compared
    /\ UNCHANGED not_comparison_vars

(***************************************************************************)
(* ALCIEP (lark/parsers/alciep.py): BaseParser.parse, which asks the user  *)
(* for an edit operation at every step.  The locals of parse are the       *)
(* fields of alciep; to_scan is a dict from a terminal to an ordered set   *)
(* of items, kept as the sequence of its entries in insertion order.       *)
(***************************************************************************)
FINISH_CORRECTION == [op |-> "Finish Correction"]

\* The most edit operations the user chooses before Finish.
MaxEdits == 3

\* The lines the user types: at most two of the characters 0 to 4, - and x.
UserInputs ==
    UNION { [1..n -> { "0", "1", "2", "3", "4", "-", "x" }] : n \in 0..2 }

\* A faulty int that takes every line for 0.
int_lenient(text) == [k |-> "int", value |-> 0]

\* int(input(...)): the number a line denotes, or the ValueError.
int(text) ==
    LET digit_value(key) ==
            CASE key = "0" -> 0 [] key = "1" -> 1 [] key = "2" -> 2
              [] key = "3" -> 3 [] key = "4" -> 4
        IsDigits(digits) ==
            digits # <<>> /\ \A n \in 1..Len(digits) : digits[n] \notin { "-", "x" }
        RECURSIVE digits_value(_)
        digits_value(digits) ==
            IF digits = <<>> THEN 0
            ELSE 10 * digits_value(SubSeq(digits, 1, Len(digits) - 1))
                 + digit_value(digits[Len(digits)])
    IN  IF IsDigits(text) THEN [k |-> "int", value |-> digits_value(text)]
        ELSE IF text # <<>> /\ text[1] = "-" /\ IsDigits(Tail(text))
        THEN [k |-> "int", value |-> 0 - digits_value(Tail(text))]
        ELSE Raised

\* to_scan[item.expect].add(item), or to_scan[item.expect] = Set([item])
to_scan_add(scan, item) ==
    IF \E n \in 1..Len(scan) : scan[n].key = item.expect
    THEN [n \in 1..Len(scan) |->
            IF scan[n].key = item.expect
            THEN [scan[n] EXCEPT !.items = AddItem(@, item)] ELSE scan[n]]
    ELSE Append(scan, [key |-> item.expect, items |-> << item >>])

\* The first Earley set and to_scan, by predicting the start symbol.
RECURSIVE alciep_init_from(_, _, _, _)
alciep_init_from(g, rules, n, st) ==
    IF n > Len(rules) THEN st
    ELSE LET item == Item(g, rules[n], 0, 0)
             next == [set |-> AddItem(st.set, item),
                      to_scan |-> IF item.expect \in TERMINALS(g)
                                  THEN to_scan_add(st.to_scan, item) ELSE st.to_scan]
         IN  IF next = next THEN alciep_init_from(g, rules, n + 1, next) ELSE next

\* Option 5: a final item of the start symbol in the current Earley set.
has_final_item(g, set) ==
    \E n \in 1..Len(set) :
        /\ set[n].is_complete
        /\ Rules(g)[set[n].rule].origin = START
        /\ set[n].start = 0

\* The edit options of one turn of the while loop, in the order of
\* edit_dict.
edit_options_of(g, toks, st) ==
    (IF st.j < Len(toks)
     THEN << DeletionOperation(toks[st.j + 1]) >>
          \o [n \in 1..Len(st.to_scan) |->
                IF term_matcher(st.to_scan[n].key, toks[st.j + 1])
                THEN ReadOperation(st.to_scan[n].key.name)
                ELSE ReplacementOperation(toks[st.j + 1], st.to_scan[n].key.name)]
     ELSE <<>>)
    \o [n \in 1..Len(st.to_scan) |-> InsertionOperation(st.to_scan[n].key.name)]
    \o (IF st.j = Len(toks) /\ has_final_item(g, st.earley_sets[st.i + 1])
        THEN << FINISH_CORRECTION >> ELSE <<>>)

\* new_item is added to the current Earley set, to the queue and to
\* new_to_scan if the set does not hold it.
alciep_add_item(g, st, new_item) ==
    IF ItemIn(new_item, st.set) THEN st
    ELSE [st EXCEPT
            !.set = Append(@, new_item),
            !.items = Append(@, new_item),
            !.to_scan = IF new_item.expect \in TERMINALS(g)
                        THEN to_scan_add(@, new_item) ELSE @]

RECURSIVE alciep_add_items(_, _, _)
alciep_add_items(g, st, to_add) ==
    IF to_add = <<>> THEN st
    ELSE LET added == alciep_add_item(g, st, Head(to_add))
         IN  IF added = added THEN alciep_add_items(g, added, Tail(to_add)) ELSE added

\* One turn of the loop that completes the Earley set i: items.pop() and
\* the completer or the predictor on the item.
alciep_closure_turn(g, sets, pos, st) ==
    LET item == st.items[Len(st.items)]
        st0 == [st EXCEPT !.items = SubSeq(@, 1, Len(@) - 1)]
    IN  IF item.is_complete
        THEN LET origin_set == IF item.start = pos THEN st0.set ELSE sets[item.start + 1]
                 originators == originators_of(origin_set, item.s)
             IN  alciep_add_items(g,
                    [st0 EXCEPT !.held = IF item.start = pos
                                         THEN @ \cup { Rules(g)[item.rule].origin } ELSE @],
                    [n \in 1..Len(originators) |-> advance(g, originators[n])])
        ELSE IF item.expect \in NON_TERMINALS(g)
        THEN LET rules == predictions(g, item.expect)
                 st1 == alciep_add_items(g, st0,
                           [n \in 1..Len(rules) |-> Item(g, rules[n], 0, pos)])
             IN  IF item.expect \in st1.held
                 THEN alciep_add_item(g, st1, advance(g, item)) ELSE st1
        ELSE st0

\* At most turns turns of that loop, the first half of them first.
RECURSIVE alciep_closure_turns(_, _, _, _, _)
alciep_closure_turns(g, sets, pos, st, turns) ==
    IF st.items = <<>> THEN st
    ELSE IF turns = 1 THEN alciep_closure_turn(g, sets, pos, st)
    ELSE LET half == alciep_closure_turns(g, sets, pos, st, turns \div 2)
         IN  IF half.items = <<>> THEN half
             ELSE alciep_closure_turns(g, sets, pos, half, turns - turns \div 2)

\* The loop while items, in blocks of sixteen turns.
RECURSIVE alciep_closure(_, _, _, _)
alciep_closure(g, sets, pos, st) ==
    IF st.items = <<>> THEN st
    ELSE alciep_closure(g, sets, pos, alciep_closure_turns(g, sets, pos, st, 16))

\* The items of to_scan[terminal], advanced, seed the new Earley set and
\* new_to_scan.
RECURSIVE alciep_shift(_, _, _, _)
alciep_shift(g, scanned, n, st) ==
    IF n > Len(scanned) THEN st
    ELSE LET new_item == advance(g, scanned[n])
             next == [set |-> AddItem(st.set, new_item),
                      to_scan |-> IF new_item.expect \in TERMINALS(g)
                                  THEN to_scan_add(st.to_scan, new_item) ELSE st.to_scan]
         IN  IF next = next THEN alciep_shift(g, scanned, n + 1, next) ELSE next

\* The terminal of a Read, a Replace or an Insert that was chosen.
terminal_of(chosen_edit) ==
    CASE chosen_edit.op = "Read" -> Terminal(chosen_edit.letter)
      [] chosen_edit.op = "Rep" -> Terminal(chosen_edit.replaced_by)
      [] chosen_edit.op = "Ins" -> Terminal(chosen_edit.word)

\* The body of the while loop after a Read, a Replace or an Insert was
\* chosen: the new Earley set, its closure and the new to_scan.
apply_shift(g, st, chosen_edit) ==
    LET pos == st.i + 1
        terminal == terminal_of(chosen_edit)
        key == CHOOSE n \in 1..Len(st.to_scan) : st.to_scan[n].key = terminal
        seeded == alciep_shift(g, st.to_scan[key].items, 1,
                               [set |-> <<>>, to_scan |-> <<>>])
        closed == alciep_closure(g, st.earley_sets, pos,
                                 [set |-> seeded.set, items |-> seeded.set,
                                  to_scan |-> seeded.to_scan, held |-> {}])
    IN  [st EXCEPT
            !.correction = Append(@, chosen_edit),
            !.earley_sets = Append(@, closed.set),
            !.j = IF chosen_edit.op = "Ins" THEN @ ELSE @ + 1,
            !.i = pos,
            !.to_scan = closed.to_scan]

\* A faulty Delete that leaves the token index where it is.
deletion_keeping_index(st, chosen_edit) ==
    [st EXCEPT
        !.correction = Append(@, chosen_edit),
        !.earley_sets = Append(@, @[st.i + 1]),
        !.i = @ + 1]

\* The body of the while loop after a Delete was chosen.
apply_deletion(st, chosen_edit) ==
    [st EXCEPT
        !.correction = Append(@, chosen_edit),
        !.earley_sets = Append(@, @[st.i + 1]),
        !.j = @ + 1,
        !.i = @ + 1]

\* The options of the next turn are computed and printed.
offer(g, toks, st) == [st EXCEPT !.edit_options = edit_options_of(g, toks, st)]

\* parse up to the first prompt.
AlciepParse ==
    /\ pc = "alciep_parse"
    /\ LET first == alciep_init_from(grammar, predictions(grammar, START), 1,
                                     [set |-> <<>>, to_scan |-> <<>>])
       IN  alciep' = offer(grammar, tokens,
                           [earley_sets |-> << first.set >>,
                            to_scan |-> first.to_scan,
                            i |-> 0,
                            j |-> 0,
                            end_correction |-> FALSE,
                            correction |-> <<>>,
                            edit_options |-> <<>>])
    /\ console' = [typed |-> <<>>, printed |-> "Choose an edit operation by its number: "]
    /\ pc' = "alciep_choose"
    /\ UNCHANGED alciep_correction
    /\ UNCHANGED not_alciep_vars

\* The user enters a line that is no number: int raises ValueError.
RejectInput ==
    /\ pc = "alciep_choose"
    /\ \E line \in UserInputs :
          /\ int(line) = Raised
          /\ console' = [typed |-> line, printed |-> "Invalid input. Please enter a number."]
    /\ UNCHANGED << pc, alciep, alciep_correction >>
    /\ UNCHANGED not_alciep_vars

\* The user enters a number that is no key of edit_dict.
RejectOption ==
    /\ pc = "alciep_choose"
    /\ \E line \in UserInputs :
          /\ int(line) # Raised
          /\ int(line).value \notin 0..(Len(alciep.edit_options) - 1)
          /\ console' = [typed |-> line, printed |-> "Invalid option. Please choose a valid number."]
    /\ UNCHANGED << pc, alciep, alciep_correction >>
    /\ UNCHANGED not_alciep_vars

\* The lines that are a key of edit_dict.
ChosenLines ==
    { line \in UserInputs :
        /\ int(line) # Raised
        /\ int(line).value \in 0..(Len(alciep.edit_options) - 1) }

\* edit_dict[chosen_option]
chosen_edit_of(line) == alciep.edit_options[int(line).value + 1]

\* The user chooses a Delete.
ChooseDeletion ==
    /\ pc = "alciep_choose"
    /\ Len(alciep.correction) < MaxEdits
    /\ \E line \in ChosenLines :
          /\ chosen_edit_of(line).op = "Del"
          /\ alciep' = offer(grammar, tokens, apply_deletion(alciep, chosen_edit_of(line)))
          /\ console' = [typed |-> line, printed |-> "Choose an edit operation by its number: "]
    /\ UNCHANGED << pc, alciep_correction >>
    /\ UNCHANGED not_alciep_vars

\* The user chooses a Read, a Replace or an Insert.
ChooseShift ==
    /\ pc = "alciep_choose"
    /\ Len(alciep.correction) < MaxEdits
    /\ \E line \in ChosenLines :
          /\ chosen_edit_of(line).op \in { "Read", "Rep", "Ins" }
          /\ alciep' = offer(grammar, tokens,
                             apply_shift(grammar, alciep, chosen_edit_of(line)))
          /\ console' = [typed |-> line, printed |-> "Choose an edit operation by its number: "]
    /\ UNCHANGED << pc, alciep_correction >>
    /\ UNCHANGED not_alciep_vars

\* The user chooses Finish: parse returns correction[:-1] as a
\* WordOrderedCorrection.
ChooseFinish ==
    /\ pc = "alciep_choose"
    /\ \E line \in ChosenLines :
          /\ chosen_edit_of(line) = FINISH_CORRECTION
          /\ alciep' = [alciep EXCEPT !.correction = Append(@, FINISH_CORRECTION),
                                      !.end_correction = TRUE]
          /\ console' = [typed |-> line, printed |-> "Correction process finished."]
    /\ alciep_correction' = WordOrderedCorrection(alciep.correction)
    /\ pc' = "alciep_done"
    /\ UNCHANGED not_alciep_vars

(***************************************************************************)
(* The claims.                                                             *)
(***************************************************************************)
\* Both parsers have returned a root.
BothParsed ==
    /\ pc \in {"oalcep_done", "visit", "done"}
    /\ root_alcep # Raised
    /\ root_oalcep # Raised

\* transform has returned a set of corrections.
Transformed == pc = "done" /\ result.k = "returned"

\* The operations of the corrections that transform returned.
Results == { result.value[n].c.operations : n \in 1..Len(result.value) }

\* The symbol and intermediate nodes of a forest below a set of its nodes.
RECURSIVE nodes_below(_, _)
nodes_below(forest, nodes) ==
    LET next == nodes \cup
                { x \in UNION { { forest[l][n].left : n \in 1..Len(forest[l]) }
                                \cup { forest[l][n].right : n \in 1..Len(forest[l]) } :
                                l \in nodes \cap DOMAIN forest } : x.k = "sym" }
    IN  IF next = nodes THEN nodes ELSE nodes_below(forest, next)

\* The node of a label has, in the two forests, the same number of packed
\* children, and every packed child of the one has a counterpart in the
\* other.
same_packed_children(node) ==
    LET children1 == families_of(grammar, node_cache, node)
        children2 == families_of(grammar, oalcep_cache, node)
    IN  /\ Len(children1) = Len(children2)
        /\ \A n \in 1..Len(children1) :
              \E m \in 1..Len(children2) : equal_packed(children1[n], children2[m])
        /\ \A m \in 1..Len(children2) :
              \E n \in 1..Len(children1) : equal_packed(children2[m], children1[n])

\* C1: the roots that ALCEP and OALCEP return for a grammar and a word are
\* structurally equal: the roots have the same label and, walking both
\* forests together from the roots, corresponding nodes have the same
\* number of packed children and every packed child of one has a
\* counterpart in the other with the same s, start, left and right node.
C1_StructurallyEqual ==
    BothParsed =>
        /\ root_alcep = root_oalcep
        /\ \A node \in nodes_below(node_cache, {root_alcep}) :
              same_packed_children(node)

\* The letters of the Read, Delete and Replace operations, in order, as one
\* string: a counted correction reads a token of two characters as two
\* letters.
RECURSIVE input_projection(_)
input_projection(operations) ==
    IF operations = <<>> THEN <<>>
    ELSE (IF Head(operations).op = "Ins" THEN <<>> ELSE Head(operations).letter)
         \o input_projection(Tail(operations))

\* The input word as one string.
RECURSIVE text_of(_)
text_of(word) == IF word = <<>> THEN <<>> ELSE Head(word) \o text_of(Tail(word))

\* C2: the input projection of every correction that transform returns on
\* the root of ALCEP or of OALCEP is the input word: the letters of its
\* Read, Delete and Replace operations are the tokens, in order.
C2_InputProjection ==
    Transformed =>
        \A operations \in Results : input_projection(operations) = text_of(tokens)

\* A packed node is about to be visited out with the corrections of both
\* its children stored: the operands of concatenate.
PendingProduct ==
    IF pc = "visit" /\ input_stack # <<>>
    THEN LET top == input_stack[Len(input_stack)]
         IN  IF /\ top.t = "node"
                /\ top.node.k = "packed"
                /\ << top.node, top.path >> \in visiting
                /\ top.node.left # None
                /\ top.node.right # None
                /\ << hash(top.node.left), top.path >> \in DOMAIN corrections
                /\ << hash(top.node.right),
                      IF top.node.right.k = "tok" THEN <<>> ELSE top.path >>
                      \in DOMAIN corrections
             THEN { << l, r >> :
                     l \in SeqToSet(corrections[<< hash(top.node.left), top.path >>]),
                     r \in SeqToSet(corrections[<< hash(top.node.right),
                              IF top.node.right.k = "tok" THEN <<>> ELSE top.path >>]) }
             ELSE {}
    ELSE {}

\* What concatenate returns on a pair of stored corrections.
Concatenation(l, r) ==
    IF options.corrections_with_edit_counter
    THEN WordOrderedCorrectionWithCounterOfEdits_concatenate(
             l.c, r.c, options.only_simplified, max_number_of)
    ELSE WordOrderedCorrection_concatenate(l.c, r.c, options.only_simplified)

\* C3: every correction that the transformer stores for a node or returns,
\* plain or counted, has the word-ordered shape (odd length, an Insert at
\* every even index, a Read, Delete or Replace at every odd index), and
\* what concatenate returns for two stored corrections of that shape has it.
C3_WordOrderedShape ==
    /\ \A key \in DOMAIN corrections :
          \A n \in 1..Len(corrections[key]) :
             IsWordOrdered(corrections[key][n].c.operations)
    /\ Transformed => \A operations \in Results : IsWordOrdered(operations)
    /\ \A pair \in PendingProduct :
          LET new_correction == Concatenation(pair[1], pair[2])
          IN  new_correction # None => IsWordOrdered(new_correction.operations)

\* A counted transform has returned a correction of two letters or more.
C3_Witness ==
    /\ Transformed
    /\ options.corrections_with_edit_counter
    /\ \E operations \in Results : Len(operations) >= 5


\* The table of L(G): the triples (A, from, to) for which the nonterminal A
\* derives word[from+1..to], as the least fixed point of the rules.
RECURSIVE matches(_, _, _, _, _, _)
matches(table, word, expansion, k, from, to) ==
    IF k > Len(expansion) THEN from = to
    ELSE IF expansion[k].is_term
    THEN LET value == pattern_value(expansion[k].name)
         IN  /\ from + Len(value) <= to
             /\ SubSeq(word, from + 1, from + Len(value)) = value
             /\ matches(table, word, expansion, k + 1, from + Len(value), to)
    ELSE \E m \in from..to :
            /\ << expansion[k].name, from, m >> \in table
            /\ matches(table, word, expansion, k + 1, m, to)

RECURSIVE derivations(_, _, _)
derivations(g, word, table) ==
    LET next == table \cup
                { << Rules(g)[r].origin.name, from, to >> :
                    << r, from, to >> \in
                       { x \in (1..Len(Rules(g))) \X (0..Len(word)) \X (0..Len(word)) :
                            /\ x[2] <= x[3]
                            /\ matches(table, word, Rules(g)[x[1]].expansion, 1, x[2], x[3]) } }
    IN  IF next = table THEN table ELSE derivations(g, word, next)

\* word is in L(G).
InLanguage(g, word) == << START.name, 0, Len(word) >> \in derivations(g, word, {})

\* C4: what apply makes of every correction that transform returns on the
\* root of a parser is a word of L(G); apply emits the letter of a Read,
\* the replaced_by of a Replace, the word of an Insert and nothing for a
\* Delete.
C4_AppliedInLanguage ==
    Transformed =>
        \A n \in 1..Len(result.value) :
           InLanguage(grammar, WordOrderedCorrection_apply(result.value[n].c))

\* transform has returned a correction that deletes or replaces a letter
\* of a word of two tokens.
C4_Witness ==
    /\ Transformed
    /\ Len(tokens) = 2
    /\ \E operations \in Results :
          /\ \E n \in 1..Len(operations) : operations[n].op = "Rep"
          /\ \E n \in 1..Len(operations) : operations[n].op = "Del"


\* The yields of the derivations of the forest below a node in which no
\* node occurs twice on a path from the root: on_path holds the symbol,
\* intermediate and packed nodes from the root to the node.
RECURSIVE Yields(_, _, _)
Yields(forest, node, on_path) ==
    IF node.k = "tok" THEN { token_correction(node.token, FALSE).operations }
    ELSE IF node \in on_path THEN {}
    ELSE IF node.k = "packed"
    THEN IF node.right = None THEN {}
         ELSE IF node.left = None
         THEN Yields(forest, node.right, on_path \cup {node})
         ELSE { fused_operations(l, r) :
                  l \in Yields(forest, node.left, on_path \cup {node}),
                  r \in Yields(forest, node.right, on_path \cup {node}) }
    ELSE LET kids == node_children(forest, node)
         IN  UNION { Yields(forest, kids[n], on_path \cup {node}) : n \in 1..Len(kids) }

\* transform has returned for a transformer of plain corrections that
\* neither simplifies nor filters.
PlainTransformed ==
    /\ Transformed
    /\ ~options.only_simplified
    /\ ~options.only_smallest
    /\ ~options.corrections_with_edit_counter

\* C5: with only_simplified = false, only_smallest = false and plain
\* corrections, transform returns exactly the yields of the derivations of
\* the forest in which no node occurs twice on a path from the root: every
\* such yield is returned and nothing else is.
C5_ExactYields == PlainTransformed => Results = Yields(Forest, Root, {})

\* The counters of a correction are within the maxima that are enabled.
within_maxima(c) ==
    /\ max_number_of.insertions # -1 => c.counter_of_insertions <= max_number_of.insertions
    /\ max_number_of.deletions # -1 => c.counter_of_deletions <= max_number_of.deletions
    /\ max_number_of.replacement # -1 =>
          c.counter_of_replacements <= max_number_of.replacement
    /\ max_number_of.edits # -1 =>
          c.counter_of_insertions + c.counter_of_deletions + c.counter_of_replacements
             <= max_number_of.edits

\* C6: when the transformer uses counted corrections, every correction that
\* transform returns has at most max_edits insertions, deletions and
\* replacements together, and each counter is at most its enabled maximum.
C6_MaximaHonoured ==
    Transformed /\ options.corrections_with_edit_counter =>
        \A n \in 1..Len(result.value) : within_maxima(result.value[n].c)

\* C9: the filter of the smallest corrections completes on a set with
\* corrections of different lengths, as the counted transformer makes of a
\* token of two letters: transform with only_smallest returns.
C9_FilterCompletes ==
    pc = "done" /\ options.only_smallest /\ Root.k = "sym" => result # Raised


\* The filter has run on its input.
Filtered == pc \in {"filter_again", "algebra_done"} /\ filter_output # None

\* The corrections of a set have one length.
equal_length(set) ==
    \A n, m \in 1..Len(set) : Len(set[n].c.operations) = Len(set[m].c.operations)

\* The members of a set that no member of the set is strictly smaller than.
minimal_members(set) ==
    { set[n].id : n \in { n \in 1..Len(set) :
         \A m \in 1..Len(set) :
            WordOrderedCorrection_compare(set[m].c, set[n].c) # CORRECTION_SMALLER } }

\* C7: on a set of corrections of equal length the filter of the smallest
\* corrections returns exactly the members that no member of the set is
\* strictly smaller than, whatever the iteration order of the set.
C7_FilterMinimal ==
    Filtered /\ equal_length(filter_input) =>
        /\ filter_output.k = "returned"
        /\ ids_of(filter_output.value) = minimal_members(filter_input)

\* The filter has removed one of three corrections of equal length and has
\* kept another.
C7_Witness ==
    /\ Filtered
    /\ Len(filter_input) = 3
    /\ equal_length(filter_input)
    /\ filter_output.k = "returned"
    /\ Len(filter_output.value) \in {1, 2}

C10_ConcatenateAssociative ==
    pc = "algebra_done" /\ operands # <<>> =>
        concatenated[1].operations = concatenated[2].operations

\* Three corrections of one letter each have been concatenated both ways.
C10_Witness ==
    /\ pc = "algebra_done"
    /\ operands # <<>>
    /\ \A n \in 1..3 : Len(operands[n].operations) = 3
    /\ Len(concatenated[1].operations) = 7

\* u is a scattered subsequence of v: the letters of u occur in v in order.
IsScatteredSubsequence(u, v) ==
    \E at \in [1..Len(u) -> 1..Len(v)] :
        /\ \A m \in 1..Len(u) : v[at[m]] = u[m]
        /\ \A m \in 1..Len(u), n \in 1..Len(u) : m < n => at[m] < at[n]

\* The fixed table of the comparison of two edit operations that are both
\* insertions or both no insertions.
ComparisonTable(a, b) ==
    CASE a.op = "Ins" /\ b.op = "Ins" ->
            IF a.word = b.word THEN CORRECTION_EQUAL
            ELSE IF IsScatteredSubsequence(a.word, b.word) THEN CORRECTION_SMALLER
            ELSE IF IsScatteredSubsequence(b.word, a.word) THEN CORRECTION_BIGGER
            ELSE CORRECTION_INCOMPARABLE
      [] a.op = "Read" /\ b.op = "Read" ->
            IF a.letter = b.letter THEN CORRECTION_EQUAL ELSE CORRECTION_INCOMPARABLE
      [] a.op = "Read" /\ b.op \in {"Del", "Rep"} ->
            IF a.letter = b.letter THEN CORRECTION_SMALLER ELSE CORRECTION_INCOMPARABLE
      [] a.op \in {"Del", "Rep"} /\ b.op = "Read" ->
            IF a.letter = b.letter THEN CORRECTION_BIGGER ELSE CORRECTION_INCOMPARABLE
      [] a.op = b.op -> IF a = b THEN CORRECTION_EQUAL ELSE CORRECTION_INCOMPARABLE
      [] OTHER -> CORRECTION_INCOMPARABLE

OperationsCompared == pc = "operations_compared"

\* C11: on every pair of edit operations that are both insertions or both
\* no insertions, compare returns the verdict of the fixed table: Read
\* against Read is EQUAL for the same letter; Read against Delete or Replace
\* of the same letter is SMALLER and the converse BIGGER; Delete against
\* Delete and Replace against Replace are EQUAL when all fields agree;
\* insertions are ordered by the scattered subsequences of their words;
\* every other pair is INCOMPARABLE.
C11_ComparisonTable ==
    (OperationsCompared /\ ((compared[1].op = "Ins") <=> (compared[2].op = "Ins")))
        => outcome = ComparisonTable(compared[1], compared[2])

\* A word was compared with a longer word that holds its letters apart.
C11_Witness ==
    /\ OperationsCompared
    /\ compared[1] = InsertionOperation(<< "a", "b" >>)
    /\ compared[2] = InsertionOperation(<< "a", "a", "b" >>)
    /\ outcome = CORRECTION_SMALLER

CorrectionsCompared == pc = "corrections_compared"

\* The verdicts of the comparisons of the operations at the same index.
PointwiseVerdicts(a, b) ==
    { EditOperation_compare(a.operations[n], b.operations[n]) : n \in 1..Len(a.operations) }

\* C12: on two corrections of the same length compare returns INCOMPARABLE
\* when a pointwise comparison is INCOMPARABLE or when both SMALLER and
\* BIGGER occur; otherwise SMALLER when a SMALLER occurs, BIGGER when a
\* BIGGER occurs, and EQUAL when every pointwise comparison is EQUAL.
C12_PointwiseLift ==
    (CorrectionsCompared /\ Len(compared[1].operations) = Len(compared[2].operations))
        => LET verdicts == PointwiseVerdicts(compared[1], compared[2])
           IN  outcome =
                 IF CORRECTION_INCOMPARABLE \in verdicts
                    \/ {CORRECTION_SMALLER, CORRECTION_BIGGER} \subseteq verdicts
                 THEN CORRECTION_INCOMPARABLE
                 ELSE IF CORRECTION_SMALLER \in verdicts THEN CORRECTION_SMALLER
                 ELSE IF CORRECTION_BIGGER \in verdicts THEN CORRECTION_BIGGER
                 ELSE CORRECTION_EQUAL

\* Two corrections of three operations were compared: a SMALLER comes
\* before a BIGGER and no operation is incomparable with its partner.
C12_Witness ==
    /\ CorrectionsCompared
    /\ Len(compared[1].operations) = 3
    /\ Len(compared[2].operations) = 3
    /\ EditOperation_compare(compared[1].operations[1], compared[2].operations[1])
          = CORRECTION_SMALLER
    /\ EditOperation_compare(compared[1].operations[3], compared[2].operations[3])
          = CORRECTION_BIGGER
    /\ CORRECTION_INCOMPARABLE \notin PointwiseVerdicts(compared[1], compared[2])
    /\ outcome = CORRECTION_INCOMPARABLE

Concatenated == pc = "concatenation_done"

IsSuffix(x, word) == \E n \in 0..Len(word) : SubSeq(word, n + 1, Len(word)) = x

IsPrefix(x, word) == \E n \in 0..Len(word) : SubSeq(word, 1, n) = x

\* The boundary of a . b is simplifiable.
SimplifiableBoundary(a, b) ==
    LET last_inserted == a.operations[Len(a.operations)].word
        first_inserted == b.operations[1].word
        before == a.operations[Len(a.operations) - 1]
        after == b.operations[2]
    IN  CASE last_inserted # <<>> /\ first_inserted # <<>> -> FALSE
          [] last_inserted # <<>> /\ first_inserted = <<>> ->
                /\ Len(b.operations) > 1
                /\ \/ after.op = "Del"
                   \/ after.op = "Rep" /\ IsSuffix(after.letter, last_inserted)
          [] last_inserted = <<>> /\ first_inserted # <<>> ->
                /\ Len(a.operations) > 1
                /\ \/ before.op = "Del"
                   \/ before.op = "Rep" /\ IsPrefix(before.replaced_by, first_inserted)
          [] OTHER ->
                /\ Len(a.operations) > 1
                /\ Len(b.operations) > 1
                /\ before.op = "Rep"
                /\ after.op = "Del"
                /\ before.replaced_by = after.letter

\* C13: concatenate of two corrections that are not empty, with simplify,
\* returns None exactly when the boundary is simplifiable, and otherwise
\* what concatenate without simplify returns: the operations of a without
\* the last, the insertion of the two words at the boundary, and the
\* operations of b without the first.
C13_SimplifyRejects ==
    Concatenated =>
        LET a == compared[1]
            b == compared[2]
        IN  /\ outcome.plain.operations =
                  SubSeq(a.operations, 1, Len(a.operations) - 1)
                  \o << InsertionOperation(a.operations[Len(a.operations)].word
                                           \o b.operations[1].word) >>
                  \o SubSeq(b.operations, 2, Len(b.operations))
            /\ outcome.simplified =
                  IF SimplifiableBoundary(a, b) THEN None ELSE outcome.plain

\* A concatenation was rejected because a replacement takes a letter that
\* the insertion before it ends with.
C13_Witness ==
    /\ Concatenated
    /\ compared[1].operations[Len(compared[1].operations)].word = << "b", "a" >>
    /\ Len(compared[2].operations) = 3
    /\ compared[2].operations[1].word = <<>>
    /\ compared[2].operations[2] = ReplacementOperation(<< "a" >>, << "b" >>)
    /\ outcome.simplified = None
    /\ outcome.plain # None

\* BaseParser.parse of ALCEP has ended.
AlcepReturned == pc \notin {"alcep_parse", "alcep_loop", "alcep_closure"}

\* The places in the last Earley set of the complete items of the start
\* symbol that start at 0.
FinalItems ==
    { n \in 1..Len(earley_sets[Len(earley_sets)]) :
        /\ earley_sets[Len(earley_sets)][n].is_complete
        /\ earley_sets[Len(earley_sets)][n].s = START
        /\ earley_sets[Len(earley_sets)][n].start = 0 }

\* C14: ALCEP's parse never raises on a grammar whose start symbol derives
\* a word: the last Earley set E_n has a complete item of the start symbol
\* that starts at 0, every such item carries the symbol node
\* (start symbol, 0, n), and parse returns that node.
C14_RootReturned ==
    AlcepReturned =>
        /\ Len(earley_sets) = Len(tokens) + 1
        /\ FinalItems # {}
        /\ \A n \in FinalItems :
              earley_sets[Len(earley_sets)][n].node = SymbolNode(START, 0, Len(tokens))
        /\ root_alcep = SymbolNode(START, 0, Len(tokens))

\* parse has returned on a word of two tokens whose last Earley set holds
\* two complete items of the start symbol.
C14_Witness ==
    /\ AlcepReturned
    /\ Len(tokens) = 2
    /\ Cardinality(FinalItems) >= 2
    /\ root_alcep = SymbolNode(START, 0, 2)

\* The correction that reads every token of a word and inserts nothing.
ReadOnly(word) ==
    [n \in 1..(2 * Len(word) + 1) |->
        IF n % 2 = 1 THEN InsertionOperation(<<>>) ELSE ReadOperation(word[n \div 2])]

\* C15: on an input word of L(G), the transformer with only_smallest =
\* true returns, on the root of ALCEP and on the root of OALCEP, one
\* correction and no other: the one that reads every token.
C15_ReadOnlySmallest ==
    (pc = "done" /\ options.only_smallest /\ InLanguage(grammar, text_of(tokens)))
        => /\ result.k = "returned"
           /\ Len(result.value) = 1
           /\ result.value[1].c.operations = ReadOnly(tokens)


\* The operation lists of the corrections that transform returned.
ReturnedOperations ==
    { result.value[k].c.operations : k \in 1..Len(result.value) }

\* The transformer has returned on the input 'b' of the grammar S -> a | a S.
ReplaceExample ==
    /\ pc = "done"
    /\ grammar = 2
    /\ tokens = << << "b" >> >>
    /\ result.k = "returned"

ReplaceCorrection ==
    << InsertionOperation(<<>>),
       ReplacementOperation(<< "b" >>, << "a" >>),
       InsertionOperation(<<>>) >>

DeleteInsertCorrections ==
    { << InsertionOperation(<< "a" >>), DeletionOperation(<< "b" >>), InsertionOperation(<<>>) >>,
      << InsertionOperation(<<>>), DeletionOperation(<< "b" >>), InsertionOperation(<< "a" >>) >> }

\* C16: for the grammar S -> a | a S and the input 'b', the corrections
\* that are produced include the replacement of b by a and the two
\* corrections of length 3 that delete b and insert a, and with
\* only_smallest = true the replacement is the only correction returned.
C16_OnlyReplaceSurvives ==
    ReplaceExample =>
        /\ (~options.only_smallest /\ ~options.only_simplified)
              => ({ ReplaceCorrection } \cup DeleteInsertCorrections) \subseteq ReturnedOperations
        /\ options.only_smallest => ReturnedOperations = { ReplaceCorrection }


\* BaseParser.parse of ALCIEP has returned a correction.
AlciepReturned == pc = "alciep_done"

\* C17: whatever the user chose before Finish, the correction that ALCIEP
\* returns is word-ordered: its operations are odd in number, those at the
\* odd places are insertions, and those at the even places are Read,
\* Delete or Replace operations.
C17_InteractiveWordOrdered ==
    AlciepReturned => IsWordOrdered(alciep_correction.operations)


\* The numeral of a digit.
Numeral(n) == << "0", "1", "2", "3", "4" >>[n + 1]

\* The lines that are the index of one of n offered options.
IndexLines(n) ==
    UNION { { << Numeral(k) >>, << "0", Numeral(k) >> } : k \in 0..(n - 1) }
    \cup (IF n > 0 THEN { << "-", "0" >> } ELSE {})

\* The user typed, at the prompt, a line that is no number or no index of
\* an offered option.
InputRejected ==
    /\ pc = "alciep_choose"
    /\ console' # console
    /\ console'.typed \notin IndexLines(Len(alciep.edit_options))

\* C18: in ALCIEP an input that is not a number, or not the index of an
\* offered option, is answered by a new prompt and changes nothing of the
\* parser: the Earley sets, i, j, to_scan, the offered options and the
\* correction built so far are what they were, and parse has not returned.
C18_RejectedInputFrame ==
    [][InputRejected =>
          /\ alciep' = alciep
          /\ pc' = "alciep_choose"
          /\ alciep_correction' = alciep_correction
          /\ console'.printed \in { "Invalid input. Please enter a number.",
                                    "Invalid option. Please choose a valid number." }]_vars

\* After one edit was chosen, a number that is no index of an offered
\* option was rejected.
C18_Witness ==
    /\ pc = "alciep_choose"
    /\ Len(alciep.correction) = 1
    /\ console.printed = "Invalid option. Please choose a valid number."
    /\ console.typed = << "4" >>


\* compute_earley_set has returned on E_i and the shift on the token after
\* position i is the next step.
ShiftNext == pc = "alcep_closure" /\ items = <<>> /\ i < Len(tokens)

\* The shift on the token before position i has run, and nothing after it.
ShiftDone == pc = "alcep_loop" /\ i >= 1

\* The node of a label has a family of these two children.
HasFamily(label, left, right) ==
    /\ label \in DOMAIN node_cache
    /\ \E n \in 1..Len(node_cache[label]) :
          node_cache[label][n].left = left /\ node_cache[label][n].right = right

\* The node of the advanced item, at position pos, has a family whose right
\* child is the token node of this operation.
HasShiftFamily(item, pos, operation) ==
    HasFamily(SymbolNode(advance(grammar, item).s, item.start, pos), item.node,
              TokenNode(operation))

\* C19: when the shift of ALCEP runs on E_i, for i = 0 as for every other
\* i, to_scan holds every item of E_i that expects a terminal, and after
\* the shift every such item has a successor by Read or by Replace in
\* E_(i+1).
C19_ToScanComplete ==
    /\ ShiftNext =>
          \A n \in 1..Len(earley_sets[i + 1]) :
              earley_sets[i + 1][n].expect \in TERMINALS(grammar)
                  => ItemIn(earley_sets[i + 1][n], to_scan)
    /\ ShiftDone =>
          \A n \in 1..Len(earley_sets[i]) :
              LET item == earley_sets[i][n]
              IN  item.expect \in TERMINALS(grammar) =>
                      /\ ItemIn(advance(grammar, item), earley_sets[i + 1])
                      /\ \/ HasShiftFamily(item, i, ReadOperation(tokens[i]))
                         \/ HasShiftFamily(item, i,
                               ReplacementOperation(tokens[i], ins_string(item.expect)))


\* What names an item: its rule, the place of its dot and its start.
Key(item) == << item.rule, item.ptr, item.start >>

Keys(set) == { Key(set[n]) : n \in 1..Len(set) }

\* C20: the shift of ALCEP on the token t_i seeds E_(i+1) with the
\* advanced item of every item of to_scan and with a copy of every item of
\* E_i, and with no other item.  The node of an advanced item has a
\* family whose right child is Read(t_i) when the expected terminal
\* matches t_i and Replace(t_i by the expected terminal) when it does not,
\* never the other one; the node of a copy ends at i + 1 and has a family
\* of the node of the item at i and of Delete(t_i).
C20_ShiftSeeds ==
    ShiftDone =>
        /\ Keys(earley_sets[i + 1]) =
              { Key(advance(grammar, to_scan[n])) : n \in 1..Len(to_scan) }
              \cup Keys(earley_sets[i])
        /\ \A n \in 1..Len(to_scan) :
              LET item == to_scan[n]
                  read == ReadOperation(tokens[i])
                  replace == ReplacementOperation(tokens[i], ins_string(item.expect))
              IN  IF term_matcher(item.expect, tokens[i])
                  THEN HasShiftFamily(item, i, read) /\ ~HasShiftFamily(item, i, replace)
                  ELSE HasShiftFamily(item, i, replace) /\ ~HasShiftFamily(item, i, read)
        /\ \A n \in 1..Len(earley_sets[i]) :
              LET item == earley_sets[i][n]
                  label == SymbolNode(item.s, item.start, i)
              IN  /\ \E m \in 1..Len(earley_sets[i + 1]) :
                        /\ SameItem(earley_sets[i + 1][m], item)
                        /\ earley_sets[i + 1][m].node = label
                  /\ HasFamily(label, item.node, TokenNode(DeletionOperation(tokens[i])))

\* The second shift of a parse has run: to_scan held an item whose
\* terminal matches the token and one whose terminal does not.
C20_Witness ==
    /\ ShiftDone
    /\ i = 2
    /\ \E n \in 1..Len(to_scan) : term_matcher(to_scan[n].expect, tokens[i])
    /\ \E n \in 1..Len(to_scan) : ~term_matcher(to_scan[n].expect, tokens[i])


\* compute_earley_set has returned on E_i.
ClosureDone == pc = "alcep_closure" /\ items = <<>>

\* The Earley set E_k.
E(k) == earley_sets[k + 1]

\* C21: when compute_earley_set(i) returns, E_i is closed under the three
\* rules of the closure.  With a complete item of A that starts at j and
\* an item of E_j that expects A, E_i holds the advanced item (also when
\* j = i); with an item that expects a non-terminal B, E_i holds the item
\* B -> . delta that starts at i of every production of B; with an item
\* that expects a terminal, E_i holds its advanced item.
C21_ClosureFixedPoint ==
    ClosureDone =>
        \A n \in 1..Len(E(i)) :
            LET item == E(i)[n]
            IN  /\ item.is_complete =>
                      \A m \in 1..Len(E(item.start)) :
                          LET originator == E(item.start)[m]
                          IN  (~originator.is_complete /\ originator.expect = item.s)
                                  => ItemIn(advance(grammar, originator), E(i))
                /\ (~item.is_complete /\ ~item.expect.is_term) =>
                      \A r \in 1..Len(Rules(grammar)) :
                          Rules(grammar)[r].origin = item.expect
                              => ItemIn(Item(grammar, r, 0, i), E(i))
                /\ (~item.is_complete /\ item.expect.is_term) =>
                      ItemIn(advance(grammar, item), E(i))

\* The closure of E_1 has ended with a complete item that starts at 1 and
\* an item of E_1 that expects its origin.
C21_Witness ==
    /\ ClosureDone
    /\ i = 1
    /\ \E n, m \in 1..Len(E(1)) :
          /\ E(1)[n].is_complete
          /\ E(1)[n].start = 1
          /\ ~E(1)[m].is_complete
          /\ E(1)[m].expect = E(1)[n].s


\* The symbol and intermediate nodes that are children of the families of
\* a cache.
ChildNodes(cache) ==
    UNION { UNION { { cache[label][n].left, cache[label][n].right } \ { None } :
                      n \in 1..Len(cache[label]) } :
              label \in DOMAIN cache }

SymbolChildren(cache) == { node \in ChildNodes(cache) : node.k = "sym" }

\* A step of ALCEP keeps the node of every label: the families the node
\* had are the first families of the node the label has after the step.
NodesKept ==
    \A label \in DOMAIN node_cache :
        /\ label \in DOMAIN node_cache'
        /\ IsPrefix(node_cache[label], node_cache'[label])

\* C22: in one parse there is one node for an identity (s, start, end).
\* In ALCEP the families of an identity are all added to the node the
\* cache keeps for it, which is never replaced, and every symbol or
\* intermediate child of a family is the node the cache keeps for the
\* identity of the child.  In OALCEP every node that has families, and
\* every such child, is the node that nodes_dict holds at its identity.
C22_OneNodePerIdentity ==
    /\ [][NodesKept]_vars
    /\ [](SymbolChildren(node_cache) \subseteq DOMAIN node_cache)
    /\ [](\A node \in DOMAIN oalcep_cache \cup SymbolChildren(oalcep_cache) :
              lookup(nodes_dict, node.end, node.start, node.s) = node)

\* Both parsers have returned, and in each forest the node of the start
\* symbol over the whole of a word of two tokens has two families or more.
C22_Witness ==
    /\ pc = "oalcep_done"
    /\ Len(tokens) = 2
    /\ SymbolNode(START, 0, 2) \in DOMAIN node_cache
    /\ SymbolNode(START, 0, 2) \in DOMAIN oalcep_cache
    /\ Len(node_cache[SymbolNode(START, 0, 2)]) >= 2
    /\ Len(oalcep_cache[SymbolNode(START, 0, 2)]) >= 2


\* In the forest of a cache, every family of a Delete whose node ends at
\* i + 1 and whose left child, if it has one, ends at i deletes the token
\* at position i.
DeletesTokenAtPosition(cache) ==
    \A label \in DOMAIN cache :
        \A n \in 1..Len(cache[label]) :
            LET family == cache[label][n]
            IN  (/\ family.right # None
                 /\ family.right.k = "tok"
                 /\ family.right.token.op = "Del"
                 /\ label.end >= 1
                 /\ (family.left = None \/ family.left.end = label.end - 1))
                    => family.right.token = DeletionOperation(tokens[label.end])

\* C23: in the forest of ALCEP and in the forest of OALCEP, the Delete
\* token node of a family of a node that ends at i + 1, with a left child
\* that ends at i, carries the input token at position i.
C23_DeleteCarriesToken ==
    BothParsed => DeletesTokenAtPosition(node_cache) /\ DeletesTokenAtPosition(oalcep_cache)


\* The loop of __visit runs.
Walking == pc = "visit"

\* A turn of the loop can be taken: the stack is empty and the loop ends, or
\* its top is an iterator, a token node, or another node (which is visited
\* in, visited out, or dropped as visited).
TurnPossible ==
    \/ input_stack = <<>>
    \/ LET current_object == input_stack[Len(input_stack)]
       IN  \/ current_object.t = "iter"
           \/ /\ current_object.t = "node"
              /\ current_object.node.k \in {"tok", "sym", "packed"}

\* No node is twice on the path of the walk: the walk never runs round a
\* cycle of the forest.
PathSimple ==
    \A m, n \in 1..Len(path) : hash(path[m]) = hash(path[n]) => m = n

\* __visit was entered and transform has ended.
WalkOver == pc = "done" /\ visiting \cup visited # {}

\* The stack is empty and transform has returned the corrections.
WalkEnded == pc = "done" /\ input_stack = <<>> /\ result.k = "returned"

PairOf(frame) == << frame.node, frame.path >>

\* The places of the stack that hold a (node, path).
NodeFrames == { n \in 1..Len(input_stack) : input_stack[n].t = "node" }

\* The places of the stack whose (node, path) is visited in and not yet out.
OpenFrames == { n \in NodeFrames : PairOf(input_stack[n]) \in visiting }

\* The stack during the walk: the pairs that are visited in and not yet out
\* are each once on the stack, in the order of the path; a pair that is
\* pushed and not visited in is the top of the stack; and right above a pair
\* that is visited in lies the iterator of its children, until that is popped.
StackDiscipline ==
    /\ Cardinality(OpenFrames) = Cardinality(visiting)
    /\ Cardinality(visiting) = Len(path)
    /\ \A pair \in visiting : \E n \in OpenFrames : PairOf(input_stack[n]) = pair
    /\ \A n \in OpenFrames :
          /\ path[Cardinality({ m \in OpenFrames : m <= n })] = input_stack[n].node
          /\ n < Len(input_stack) => input_stack[n + 1].t = "iter"
    /\ \A n \in NodeFrames \ OpenFrames : n = Len(input_stack)

\* A step that pushes a (node, path): the node is not part of a pair that is
\* visited in and not yet out.
PushedOutsideVisit ==
    (/\ Len(input_stack') = Len(input_stack) + 1
     /\ input_stack'[Len(input_stack')].t = "node")
        => \A pair \in visiting : pair[1] # input_stack'[Len(input_stack')].node

\* A step that visits a pair in: the pair is the top of the stack and was
\* neither visited in nor visited out before.
InOnce ==
    \A pair \in visiting' \ visiting :
        /\ pair \notin visited
        /\ input_stack # <<>>
        /\ input_stack[Len(input_stack)].t = "node"
        /\ pair = PairOf(input_stack[Len(input_stack)])

\* A step that visits a pair out: the pair was visited in, it is the top of
\* the stack (what its in visit pushed is popped), it is popped, and it is
\* visited in no more.
OutOnce ==
    \A pair \in visited' \ visited :
        /\ pair \in visiting
        /\ pair \notin visiting'
        /\ input_stack[Len(input_stack)].t = "node"
        /\ pair = PairOf(input_stack[Len(input_stack)])
        /\ input_stack' = SubSeq(input_stack, 1, Len(input_stack) - 1)

\* What is visited out stays so, and a pair leaves the pairs that are
\* visited in only by its out visit.
VisitsKept ==
    /\ visited \subseteq visited'
    /\ (visiting \ visiting') \subseteq (visited' \ visited)

\* C25: during the walk of the transformer no node is pushed while it is
\* between its in visit and its out visit, each (node, path) is visited in
\* at most once and out at most once, and the out visit comes when all that
\* the in visit put on the stack is popped.
C25_InOutDiscipline ==
    /\ [](Walking => StackDiscipline)
    /\ [][Walking => (PushedOutsideVisit /\ InOnce /\ OutOnce /\ VisitsKept)]_vars

\* A pair was visited in and out on the forest in which a symbol node is its
\* own descendant, and a pair is visited in for which a child was not
\* pushed because it is on the path.
C25_Witness ==
    /\ Walking
    /\ grammar = 5
    /\ visited # {}
    /\ visiting # {}
    /\ input_stack # <<>>
    /\ input_stack[Len(input_stack)].t = "iter"
    /\ \E n \in 1..Len(input_stack[Len(input_stack)].rest) :
          in_path(input_stack[Len(input_stack)].rest[n][1], path)


\* The path that the spec hands to the children of a symbol node: a new
\* path of the node alone where start = end, the incoming path with the
\* node at its end elsewhere.
HandedPath(node, path_to_node) ==
    IF node.start = node.end THEN << node >> ELSE Append(path_to_node, node)

\* C26: the children that the in visit of a symbol node puts on the stack
\* carry the new path of the node alone when the node has start = end,
\* whatever path it was reached with, and the incoming path extended by the
\* node otherwise.
C26_AnchorsResetPath ==
    Walking =>
        \A n \in OpenFrames :
            (/\ n < Len(input_stack)
             /\ input_stack[n].node.k = "sym")
                => \A c \in 1..Len(input_stack[n + 1].rest) :
                       input_stack[n + 1].rest[c][2]
                           = HandedPath(input_stack[n].node, input_stack[n].path)


\* The maxima that the constructor of a counted transformer writes.
CapsOf(config) ==
    [insertions |-> config.max_number_of_insertions,
     replacement |-> config.max_number_of_replacement,
     deletions |-> config.max_number_of_deletions,
     edits |-> config.max_number_of_edits]

\* The maxima of the transformer with counted corrections that was
\* constructed last, and those of the class when there is none.
RECURSIVE InstalledCaps(_)
InstalledCaps(transformers) ==
    IF transformers = <<>> THEN NoCaps
    ELSE LET last == transformers[Len(transformers)]
         IN  IF last.corrections_with_edit_counter THEN CapsOf(last)
             ELSE InstalledCaps(SubSeq(transformers, 1, Len(transformers) - 1))

\* transform of one of the constructed transformers runs or has ended.
Transforming == pc \in {"visit", "done"} /\ constructed # <<>> /\ options # None

\* C27: the maxima of the counted corrections belong to the process: they
\* are those of the counted transformer that was constructed last, the
\* construction of a transformer without counted corrections leaves them,
\* and transform of any transformer applies them, not its own.
C27_CapsProcessWide ==
    /\ max_number_of = InstalledCaps(constructed)
    /\ Transforming => Opts.caps = InstalledCaps(constructed)

\* The transformer that was constructed first has transformed, with the
\* maxima of a counted transformer that was constructed after it; and the
\* maxima stay through the construction of a transformer that is not counted.
C27_Witness ==
    /\ pc = "done"
    /\ result.k = "returned"
    /\ Len(constructed) = 2
    /\ options.transformer = 1
    /\ constructed[1].corrections_with_edit_counter
    /\ constructed[2].corrections_with_edit_counter
    /\ CapsOf(constructed[1]) # CapsOf(constructed[2])
    /\ max_number_of = CapsOf(constructed[2])

C27_WitnessUncounted ==
    /\ pc = "done"
    /\ result.k = "returned"
    /\ Len(constructed) = 2
    /\ options.transformer = 1
    /\ constructed[1].corrections_with_edit_counter
    /\ ~constructed[2].corrections_with_edit_counter
    /\ max_number_of = CapsOf(constructed[1])


\* The operation lists of the corrections of a returned set.
OperationsOf(set) == { set.value[k].c.operations : k \in 1..Len(set.value) }

\* Both transformers have returned.
BothReturned == pc = "done" /\ returned # <<>> /\ result.k = "returned"

\* C28: with only_smallest, plain corrections and no simplification, the
\* transformer that filters after every out visit returns the operation
\* sequences that the transformer that filters at the root returns.
C28_DynamicEqualsRoot ==
    BothReturned => OperationsOf(result) = OperationsOf(returned[1])

\* Both have returned on a word of two tokens with several smallest
\* corrections, and the second has filtered the sets of nodes below the
\* root.
C28_Witness ==
    /\ BothReturned
    /\ options.smallest_dynamically
    /\ Len(tokens) = 2
    /\ Cardinality(OperationsOf(result)) >= 2
    /\ \E key \in DOMAIN corrections :
          /\ key[1] # hash(Root)
          /\ Len(corrections[key]) >= 2


\* The calls of add_family that __compute_edges makes on the nodes that
\* compute_nodes has left.
EdgesOfOalcep ==
    deletion_edges(grammar, q_0, x_i, nodes_dict, Len(tokens), tokens)
    \o insertion_edges(grammar, q_0, x_i, nodes_dict, Len(tokens))
    \o read_replace_edges(grammar, q_0, x_i, nodes_dict, Len(tokens), tokens)
    \o completer_edges(grammar, q_0, x_i, nodes_dict, Len(tokens))

\* compute_nodes has returned and __compute_edges comes next.
NodesComputed == pc = "oalcep_edges"

\* C29: for every grammar and every length of the input, in whatever order
\* compute_nodes has met the items of Q0 and X_i, every node that
\* __compute_edges adds a family to is there: none is a position that
\* compute_nodes has left None.
C29_FamiliesOnNodes ==
    NodesComputed =>
        \A n \in 1..Len(EdgesOfOalcep) : EdgesOfOalcep[n].target # None


\* The edit operations that consume a token of the input.
ConsumesToken(edit) == edit.op \in { "Read", "Del", "Rep" }

\* The number of Read, Delete and Replace operations of a list.
TokenEdits(operations) ==
    Cardinality({ k \in 1..Len(operations) : ConsumesToken(operations[k]) })

\* The user is asked to choose among the edit options.
Offered == pc = "alciep_choose"

\* What is offered: a Read, Delete or Replace only before the end of the
\* input, Finish only at the end of the input with a final item of the start
\* symbol in the current Earley set; and j counts the tokens that the chosen
\* edits have consumed.
OffersByIndex ==
    /\ \A k \in 1..Len(alciep.edit_options) :
          /\ ConsumesToken(alciep.edit_options[k]) => alciep.j < Len(tokens)
          /\ alciep.edit_options[k] = FINISH_CORRECTION =>
                /\ alciep.j = Len(tokens)
                /\ has_final_item(grammar, alciep.earley_sets[alciep.i + 1])
    /\ TokenEdits(alciep.correction) = alciep.j

\* A step in which an edit is chosen: j grows by one with a Read, a Delete
\* or a Replace, and stays with an Insert and with Finish.
IndexStep ==
    (Offered /\ alciep'.correction # alciep.correction) =>
        LET chosen_edit == alciep'.correction[Len(alciep'.correction)]
        IN  /\ alciep'.correction = Append(alciep.correction, chosen_edit)
            /\ alciep'.j = alciep.j + (IF ConsumesToken(chosen_edit) THEN 1 ELSE 0)

\* A step in which no edit is chosen leaves j.
IndexKept ==
    (Offered /\ alciep'.correction = alciep.correction) => alciep'.j = alciep.j

\* C30: in ALCIEP the token index j only grows, by one with each chosen
\* Read, Delete or Replace and not with an Insert; Read, Delete and Replace
\* are offered only while j < n, Finish only when j = n and the current
\* Earley set holds a final item of the start symbol; and the correction
\* that is returned has exactly n Read, Delete and Replace operations.
C30_TokenIndex ==
    /\ [](Offered => OffersByIndex)
    /\ [][IndexStep /\ IndexKept]_vars
    /\ [](pc = "alciep_done" => TokenEdits(alciep_correction.operations) = Len(tokens))

\* A correction of a word of two tokens is returned that has an Insert
\* and a Delete among its three operations.
C30_Witness ==
    /\ pc = "alciep_done"
    /\ Len(tokens) = 2
    /\ Len(alciep_correction.operations) = 3
    /\ \E k \in 1..3 : alciep_correction.operations[k].op = "Ins"
    /\ \E k \in 1..3 : alciep_correction.operations[k].op = "Del"

\* Nothing of the parsers and of the transformer has run.
InitPipeline ==
    /\ earley_sets = <<>>
    /\ to_scan = <<>>
    /\ next_to_scan = <<>>
    /\ node_cache = EmptyDict
    /\ items = <<>>
    /\ held_completions = EmptyDict
    /\ i = 0
    /\ root_alcep = None
    /\ q_0 = <<>>
    /\ x_i = <<>>
    /\ nodes_dict = EmptyDict
    /\ oalcep_cache = EmptyDict
    /\ root_oalcep = None
    /\ options = None
    /\ max_number_of = NoCaps
    /\ constructed = <<>>
    /\ returned = <<>>
    /\ input_stack = <<>>
    /\ visiting = {}
    /\ visited = {}
    /\ visited_token_nodes = {}
    /\ path = <<>>
    /\ corrections = EmptyDict
    /\ next_id = 0
    /\ result = None
    /\ alciep = None
    /\ console = [typed |-> <<>>, printed |-> ""]
    /\ alciep_correction = None

\* Nothing of the algebra has run.
InitAlgebra ==
    /\ concatenated = None
    /\ filter_output = None
    /\ filter_output_again = None

\* Nothing is compared.
InitComparison ==
    /\ compared = <<>>
    /\ outcome = None

\* A grammar and an input word: both parsers parse the word, and a
\* transformer transforms the root of one of them.
Init ==
    /\ pc = "alcep_parse"
    /\ grammar \in GrammarIds
    /\ tokens \in InputWords(grammar)
    /\ InitPipeline
    /\ operands = <<>>
    /\ filter_input = <<>>
    /\ InitAlgebra
    /\ InitComparison

Next ==
    \/ AlcepParse
    \/ AlcepLoop
    \/ Completer
    \/ Predictor
    \/ InsertionRule
    \/ InitNextEarleySet
    \/ AlcepReturn
    \/ OalcepParse
    \/ OalcepComputeNodes
    \/ OalcepComputeEdges
    \/ Transform
    \/ VisitStopIteration
    \/ VisitNext
    \/ VisitTokenNode
    \/ VisitOut
    \/ VisitVisited
    \/ VisitIn
    \/ TransformReturn

Spec == Init /\ [][Next]_vars

\* Three corrections to concatenate, or a set of corrections to filter.
InitOperands ==
    /\ grammar = 1
    /\ tokens = <<>>
    /\ InitPipeline
    /\ InitAlgebra
    /\ InitComparison
    /\ \/ /\ pc = "concatenate"
          /\ operands \in (Operands \cup {EmptyCorrection})
                          \X (Operands \cup {EmptyCorrection})
                          \X (Operands \cup {EmptyCorrection})
          /\ filter_input = <<>>
       \/ /\ pc = "filter"
          /\ operands = <<>>
          /\ filter_input \in SetsOfCorrections

NextAlgebra ==
    \/ Concatenate
    \/ Filter
    \/ FilterAgain

SpecAlgebra == InitOperands /\ [][NextAlgebra]_vars

\* Two edit operations or two corrections to compare, or two corrections
\* to concatenate.
InitCompared ==
    /\ grammar = 1
    /\ tokens = <<>>
    /\ InitPipeline
    /\ operands = <<>>
    /\ filter_input = <<>>
    /\ InitAlgebra
    /\ outcome = None
    /\ \/ /\ pc = "compare_operations"
          /\ compared \in ComparedOperations \X ComparedOperations
       \/ /\ pc = "compare_corrections"
          /\ compared \in Operands \X Operands
       \/ /\ pc = "concatenate_simplified"
          /\ compared \in BoundaryOperands \X BoundaryOperands

NextComparison ==
    \/ CompareOperations
    \/ CompareCorrections
    \/ ConcatenateSimplified

SpecComparison == InitCompared /\ [][NextComparison]_vars

\* A grammar and an input word: ALCIEP parses the word with a user.
InitInteractive ==
    /\ pc = "alciep_parse"
    /\ grammar \in GrammarIds
    /\ tokens \in InputWords(grammar)
    /\ InitPipeline
    /\ operands = <<>>
    /\ filter_input = <<>>
    /\ InitAlgebra
    /\ InitComparison

NextInteractive ==
    \/ AlciepParse
    \/ RejectInput
    \/ RejectOption
    \/ ChooseDeletion
    \/ ChooseShift
    \/ ChooseFinish

SpecInteractive == InitInteractive /\ [][NextInteractive]_vars

\* A turn of the loop of __visit, or the return from it.
Walk ==
    \/ VisitStopIteration
    \/ VisitNext
    \/ VisitTokenNode
    \/ VisitOut
    \/ VisitVisited
    \/ VisitIn
    \/ TransformReturn

\* The words of at most one token: the forest of grammar 5 already has a
\* symbol node that is reachable from itself.
InitShortWord ==
    /\ Init
    /\ Len(tokens) <= 1

\* The run as the interpreter runs it: while __visit has not returned, the
\* loop's next turn is taken.  This is WF_vars(Walk) with the enabling
\* condition of Walk written out: the loop is running.
SpecLive == InitShortWord /\ [][Next]_vars /\ ([]<>(pc # "visit") \/ []<><<Walk>>_vars)

\* Two transformers are constructed one after the other, and then one of
\* them transforms the root of a parser: on the grammars 1 and 2 and the
\* words of at most one token.
InitConstructed ==
    /\ Init
    /\ grammar \in {1, 2}
    /\ Len(tokens) <= 1

NextConstructed ==
    \/ AlcepParse
    \/ AlcepLoop
    \/ Completer
    \/ Predictor
    \/ InsertionRule
    \/ InitNextEarleySet
    \/ AlcepReturn
    \/ OalcepParse
    \/ OalcepComputeNodes
    \/ OalcepComputeEdges
    \/ Construct
    \/ TransformConstructed
    \/ Walk

SpecConstructed == InitConstructed /\ [][NextConstructed]_vars

\* The run of Spec, and after it a second transformer on the same root.
NextDynamic ==
    \/ Next
    \/ TransformDynamically

SpecDynamic == Init /\ [][NextDynamic]_vars

\* The run of Spec with a parser OALCEP that is constructed with
\* ordered_sets = False.
NextUnordered ==
    \/ AlcepParse
    \/ AlcepLoop
    \/ Completer
    \/ Predictor
    \/ InsertionRule
    \/ InitNextEarleySet
    \/ AlcepReturn
    \/ OalcepParse
    \/ OalcepComputeNodesUnordered
    \/ OalcepComputeEdges
    \/ Transform
    \/ Walk

SpecUnordered == Init /\ [][NextUnordered]_vars

=============================================================================
